---- MODULE Spec2Model ----
(***************************************************************************)
(* Verification model of the chord pipeline of haru-bridge/chordapp:       *)
(*   lib/keyTransform.ts  (semitoneShift, transposeChord,                  *)
(*                         romanDegreeForChord)                            *)
(*   lib/voicingEngine.ts (voicingForChord)                                *)
(*   lib/chordEngine.ts   (parseChordInputDetailed)                        *)
(*   lib/romanEngine.ts   (parseRomanInputDetailed, itemsToPlayableChords) *)
(*   app/page.tsx         (the fold that voices a progression)             *)
(*   components/ChordPadGrid.tsx (the pads: startPad, stopPad, the keys)   *)
(* Texts (chord symbols, note names, input) are sequences of one-character *)
(* strings, so that splitting and concatenation are modelled as the code   *)
(* performs them.                                                          *)
(***************************************************************************)
EXTENDS Integers, Sequences, FiniteSets, TLC

VARIABLES
  fromTonic, toTonic, shift,              \* page.tsx: key selectors and the memoised shift
  tch, tsemis, tres, tback, tpc,          \* transposeChord applied to an input chord and back
  vCenter, vOpts, vCh, vPrev, vOut, vPos, \* voicingForChord threaded along a progression
  playableOriginal, pageCenterOctave,     \* page.tsx: the chords, the centre octave and
  voicingsOriginal,                       \*   the memoised voicings of the progression
  pInput, pItems, pPlayable, pPc,         \* parseChordInputDetailed applied to an input text
  rKey, rInput, rItems, rPlayable,        \* parseRomanInputDetailed applied to an input text
  rDegrees, rPc,                          \*   in a key, and the degrees of its chords
  synthRef, padHoldCounts, heldNotes,     \* ChordPadGrid.tsx: the refs of the pad grid,
  noteCounts, kbdDown, activePointers,
  awaiting, synthsCreated,                \*   the suspended startPad calls, the synths made,
  calls, sounding,                        \*   the synth calls of the last step, the voices,
  keysDown, pointerAt, typing             \*   the keys that are down, the pad each pointer
                                          \*   went down on, the focus on an input field

keyVars == <<fromTonic, toTonic, shift>>
trVars == <<tch, tsemis, tres, tback, tpc>>
voVars == <<vCenter, vOpts, vCh, vPrev, vOut, vPos>>
pageVars == <<playableOriginal, pageCenterOctave, voicingsOriginal>>
parseVars == <<pInput, pItems, pPlayable, pPc>>
romanVars == <<rKey, rInput, rItems, rPlayable, rDegrees, rPc>>
padVars == <<synthRef, padHoldCounts, heldNotes, noteCounts, kbdDown, activePointers,
             awaiting, synthsCreated, calls, sounding, keysDown, pointerAt, typing>>
vars == <<fromTonic, toTonic, shift, tch, tsemis, tres, tback, tpc,
          vCenter, vOpts, vCh, vPrev, vOut, vPos,
          playableOriginal, pageCenterOctave, voicingsOriginal,
          pInput, pItems, pPlayable, pPc,
          rKey, rInput, rItems, rPlayable, rDegrees, rPc,
          synthRef, padHoldCounts, heldNotes, noteCounts, kbdDown, activePointers,
          awaiting, synthsCreated, calls, sounding, keysDown, pointerAt, typing>>

(***************************************************************************)
(* Bounds                                                                  *)
(***************************************************************************)
MaxSemis == 61
MaxVoices == 4
MaxProg == 2
MaxChords == 3
MaxPieces == 3
MaxPads == 2
MaxCalls == 2
MaxPointers == 1

(***************************************************************************)
(* Generic helpers on texts                                                *)
(***************************************************************************)
Null == <<"null">>

Abs(x) == IF x < 0 THEN -x ELSE x

\* JavaScript %: the remainder takes the sign of the dividend
FloorMod(a, b) == a % b
JsRem(a, b) == IF a >= 0 THEN a % b ELSE -((-a) % b)

Digits == <<"0", "1", "2", "3", "4", "5", "6", "7", "8", "9">>
IsDigit(c) == \E i \in 1..10 : Digits[i] = c
DigitVal(c) == (CHOOSE i \in 1..10 : Digits[i] = c) - 1

RECURSIVE NatToText(_)
NatToText(n) == IF n < 10 THEN <<Digits[n + 1]>>
                ELSE NatToText(n \div 10) \o <<Digits[(n % 10) + 1]>>

\* Number.prototype.toString for an integer
IntToText(n) == IF n < 0 THEN <<"-">> \o NatToText(-n) ELSE NatToText(n)

\* s.replace(/\d+/g, "")
RECURSIVE stripOctave(_)
stripOctave(s) ==
  IF s = <<>> THEN <<>>
  ELSE IF IsDigit(Head(s)) THEN stripOctave(Tail(s))
  ELSE <<Head(s)>> \o stripOctave(Tail(s))

(***************************************************************************)
(* Tone.Frequency: note names.  A note text is a letter a-g (either case), *)
(* an accidental out of b # ## x bb ### #x x# bbb, and an octave -?[0-9]+; *)
(* anything after the octave is ignored, and a text of another shape has   *)
(* no finite MIDI number.                                                  *)
(***************************************************************************)
NaN == -100000

IsFinite(m) == m # NaN

LetterIndex(c) ==
  CASE c \in {"C", "c"} -> 0
    [] c \in {"D", "d"} -> 2
    [] c \in {"E", "e"} -> 4
    [] c \in {"F", "f"} -> 5
    [] c \in {"G", "g"} -> 7
    [] c \in {"A", "a"} -> 9
    [] c \in {"B", "b"} -> 11
    [] OTHER -> NaN

ToneAccidentals ==
  << <<"b">>, <<"#">>, <<"#", "#">>, <<"x">>, <<"b", "b">>, <<"#", "#", "#">>,
     <<"#", "x">>, <<"x", "#">>, <<"b", "b", "b">>, <<>> >>

AccidentalOffset(a) ==
  CASE a = <<"b">> -> -1
    [] a = <<"#">> -> 1
    [] a = <<"#", "#">> -> 2
    [] a = <<"x">> -> 2
    [] a = <<"b", "b">> -> -2
    [] a = <<"#", "#", "#">> -> 3
    [] a = <<"#", "x">> -> 3
    [] a = <<"x", "#">> -> 3
    [] a = <<"b", "b", "b">> -> -3
    [] OTHER -> 0

IsPrefix(p, s) == Len(p) <= Len(s) /\ SubSeq(s, 1, Len(p)) = p

Drop(s, n) == SubSeq(s, n + 1, Len(s))

\* the value of the leading run of digits of s (s starts with a digit)
RECURSIVE LeadingNat(_, _)
LeadingNat(s, acc) ==
  IF s = <<>> \/ ~IsDigit(Head(s)) THEN acc
  ELSE LeadingNat(Tail(s), 10 * acc + DigitVal(Head(s)))

\* -?[0-9]+ at the start of s
HasOctave(s) ==
  \/ s # <<>> /\ IsDigit(s[1])
  \/ Len(s) >= 2 /\ s[1] = "-" /\ IsDigit(s[2])

OctaveOf(s) == IF s[1] = "-" THEN -LeadingNat(Tail(s), 0) ELSE LeadingNat(s, 0)

\* Tone.Frequency(text).toMidi() for a text that starts with a letter:
\* /^([a-g]{1}(?:b|#|##|x|bb|###|#x|x#|bbb)?)(-?[0-9]+)/i
ToneMidi(text) ==
  IF text = <<>> \/ LetterIndex(text[1]) = NaN THEN NaN
  ELSE LET rest == Tail(text)
       IN IF HasOctave(rest) THEN LetterIndex(text[1]) + (OctaveOf(rest) + 1) * 12
          ELSE LET fits == {i \in 1..(Len(ToneAccidentals) - 1) :
                              /\ IsPrefix(ToneAccidentals[i], rest)
                              /\ HasOctave(Drop(rest, Len(ToneAccidentals[i])))}
               IN IF fits = {} THEN NaN
                  ELSE LET i == CHOOSE j \in fits : \A k \in fits : j <= k
                           a == ToneAccidentals[i]
                       IN LetterIndex(text[1]) + AccidentalOffset(a)
                            + (OctaveOf(Drop(rest, Len(a))) + 1) * 12

scaleIndexToNote ==
  << <<"C">>, <<"C", "#">>, <<"D">>, <<"D", "#">>, <<"E">>, <<"F">>, <<"F", "#">>,
     <<"G">>, <<"G", "#">>, <<"A">>, <<"A", "#">>, <<"B">> >>

\* Tone.Frequency(m, "midi").toNote()
FloorDiv12(n) == IF n >= 0 THEN n \div 12 ELSE -((-n + 11) \div 12)
ToneToNote(m) ==
  LET noteNumber == m - 12
      octave == FloorDiv12(noteNumber)
      nn == IF octave < 0 THEN noteNumber - 12 * octave ELSE noteNumber
  IN scaleIndexToNote[JsRem(nn, 12) + 1] \o IntToText(octave)

(***************************************************************************)
(* lib/keyTransform.ts                                                     *)
(***************************************************************************)
TONICS ==
  << <<"C">>, <<"D", "b">>, <<"D">>, <<"E", "b">>, <<"E">>, <<"F">>, <<"G", "b">>,
     <<"G">>, <<"A", "b">>, <<"A">>, <<"B", "b">>, <<"B">> >>

TonicSet == {TONICS[i] : i \in 1..Len(TONICS)}

SemitoneShiftFloorMod(fromT, toT) ==
  LET a == ToneMidi(fromT \o <<"4">>)
      b == ToneMidi(toT \o <<"4">>)
  IN IF ~IsFinite(a) \/ ~IsFinite(b) THEN 0
     ELSE LET d0 == FloorMod(b - a, 12)
              d1 == IF d0 > 6 THEN d0 - 12 ELSE d0
          IN IF d1 < -6 THEN d1 + 12 ELSE d1

semitoneShift(fromT, toT) ==
  LET a == ToneMidi(fromT \o <<"4">>)
      b == ToneMidi(toT \o <<"4">>)
  IN IF ~IsFinite(a) \/ ~IsFinite(b) THEN 0
     ELSE LET d0 == JsRem(b - a, 12)
              d1 == IF d0 > 6 THEN d0 - 12 ELSE d0
          IN IF d1 < -6 THEN d1 + 12 ELSE d1

transposeNoteName(note, semis) ==
  LET m == ToneMidi(note \o <<"4">>)
  IN IF ~IsFinite(m) THEN Null
     ELSE stripOctave(ToneToNote(m + semis))

IsRootLetter(c) == c \in {"A", "B", "C", "D", "E", "F", "G"}

\* symbol.match(/^([A-G](?:b|#)?)(.*)$/)
splitChordRootAndSuffix(symbol) ==
  IF symbol = <<>> \/ ~IsRootLetter(symbol[1]) THEN [root |-> Null, suffix |-> symbol]
  ELSE IF Len(symbol) >= 2 /\ symbol[2] \in {"b", "#"}
       THEN [root |-> SubSeq(symbol, 1, 2), suffix |-> Drop(symbol, 2)]
       ELSE [root |-> SubSeq(symbol, 1, 1), suffix |-> Drop(symbol, 1)]

NullChord == [raw |-> Null, symbol |-> Null, bass |-> Null]

transposeChord(ch, semis) ==
  LET sp == splitChordRootAndSuffix(ch.symbol)
  IN IF sp.root = Null THEN NullChord
     ELSE LET newRoot == transposeNoteName(sp.root, semis)
          IN IF newRoot = Null THEN NullChord
             ELSE LET b == IF ch.bass # Null /\ ch.bass # <<>>
                           THEN transposeNoteName(ch.bass, semis) ELSE Null
                  IN [raw |-> ch.raw, symbol |-> newRoot \o sp.suffix, bass |-> b]

\* the semitone value mod 12 of a note name, NaN when it has none
PitchClassOf(note) ==
  LET m == ToneMidi(note \o <<"4">>)
  IN IF IsFinite(m) THEN FloorMod(m, 12) ELSE NaN

(***************************************************************************)
(* tonal: Chord.get.  A symbol is tokenized into a tonic (letter,          *)
(* accidentals, octave) and a type name; the type is looked up in the      *)
(* chord-type table (the types listed here are the ones the model's inputs *)
(* use; any other type name is unknown).  A known type without a tonic is  *)
(* a chord that is not empty and has no notes.                             *)
(***************************************************************************)
TonalLetters == <<"C", "D", "E", "F", "G", "A", "B">>

NaturalSemis == <<0, 2, 4, 5, 7, 9, 11>>

IsTonalLetter(c) == LetterIndex(c) # NaN

UpperLetter(c) ==
  CASE c = "c" -> "C" [] c = "d" -> "D" [] c = "e" -> "E" [] c = "f" -> "F"
    [] c = "g" -> "G" [] c = "a" -> "A" [] c = "b" -> "B" [] OTHER -> c

LetterStep(c) == CHOOSE i \in 0..6 : TonalLetters[i + 1] = UpperLetter(c)

RECURSIVE Repeat(_, _)
Repeat(c, n) == IF n <= 0 THEN <<>> ELSE <<c>> \o Repeat(c, n - 1)

\* the length of the leading run of the character c in s
RECURSIVE RunLength(_, _)
RunLength(s, c) == IF s = <<>> \/ Head(s) # c THEN 0 ELSE 1 + RunLength(Tail(s), c)

\* the length of the leading run of digits in s
RECURSIVE DigitRun(_)
DigitRun(s) == IF s = <<>> \/ ~IsDigit(Head(s)) THEN 0 ELSE 1 + DigitRun(Tail(s))

\* intervals: the number of letter steps and of semitones above the tonic
Interval ==
  [P1 |-> [step |-> 0, semis |-> 0], M2 |-> [step |-> 1, semis |-> 2],
   m3 |-> [step |-> 2, semis |-> 3], M3 |-> [step |-> 2, semis |-> 4],
   P4 |-> [step |-> 3, semis |-> 5], d5 |-> [step |-> 4, semis |-> 6],
   P5 |-> [step |-> 4, semis |-> 7], A5 |-> [step |-> 4, semis |-> 8],
   M6 |-> [step |-> 5, semis |-> 9],
   d7 |-> [step |-> 6, semis |-> 9], m7 |-> [step |-> 6, semis |-> 10],
   M7 |-> [step |-> 6, semis |-> 11], m9 |-> [step |-> 8, semis |-> 13],
   M9 |-> [step |-> 8, semis |-> 14], A9 |-> [step |-> 8, semis |-> 15]]

\* the intervals of a chord type, from their names
Intervals(names) == [i \in 1..Len(names) |-> Interval[names[i]]]

ChordTypeTable ==
  << [aliases |-> {<<>>, <<"M">>}, intervals |-> Intervals(<<"P1", "M3", "P5">>)],
     [aliases |-> {<<"m">>}, intervals |-> Intervals(<<"P1", "m3", "P5">>)],
     [aliases |-> {<<"7">>}, intervals |-> Intervals(<<"P1", "M3", "P5", "m7">>)],
     [aliases |-> {<<"m", "a", "j", "7">>}, intervals |-> Intervals(<<"P1", "M3", "P5", "M7">>)],
     [aliases |-> {<<"m", "7">>}, intervals |-> Intervals(<<"P1", "m3", "P5", "m7">>)],
     [aliases |-> {<<"6">>}, intervals |-> Intervals(<<"P1", "M3", "P5", "M6">>)],
     [aliases |-> {<<"d", "i", "m", "7">>}, intervals |-> Intervals(<<"P1", "m3", "d5", "d7">>)],
     [aliases |-> {<<"m", "7", "b", "5">>}, intervals |-> Intervals(<<"P1", "m3", "d5", "m7">>)],
     [aliases |-> {<<"s", "u", "s", "4">>}, intervals |-> Intervals(<<"P1", "P4", "P5">>)],
     [aliases |-> {<<"9">>}, intervals |-> Intervals(<<"P1", "M3", "P5", "m7", "M9">>)],
     [aliases |-> {<<"7", "#", "9">>}, intervals |-> Intervals(<<"P1", "M3", "P5", "m7", "A9">>)],
     [aliases |-> {<<"b", "9", "s", "u", "s">>}, intervals |-> Intervals(<<"P1", "P4", "P5", "m7", "m9">>)],
     [aliases |-> {<<"d", "i", "m">>, <<"o">>}, intervals |-> Intervals(<<"P1", "m3", "d5">>)],
     [aliases |-> {<<"a", "u", "g">>, <<"+">>}, intervals |-> Intervals(<<"P1", "M3", "A5">>)],
     [aliases |-> {<<"s", "u", "s", "2">>}, intervals |-> Intervals(<<"P1", "M2", "P5">>)],
     [aliases |-> {<<"a", "d", "d", "9">>, <<"M", "a", "d", "d", "9">>},
      intervals |-> Intervals(<<"P1", "M3", "P5", "M9">>)],
     [aliases |-> {<<"m", "a", "d", "d", "9">>}, intervals |-> Intervals(<<"P1", "m3", "P5", "M9">>)] >>

KnownType(t) == \E i \in 1..Len(ChordTypeTable) : t \in ChordTypeTable[i].aliases

TypeIntervals(t) ==
  ChordTypeTable[CHOOSE i \in 1..Len(ChordTypeTable) : t \in ChordTypeTable[i].aliases].intervals

\* tokenizeNote: /^([a-gA-G]?)(#{1,}|b{1,}|x{1,}|)(-?\d*)\s*(.*)$/
TonalTokenizeNote(name) ==
  LET hasLetter == name # <<>> /\ IsTonalLetter(name[1])
      r1 == IF hasLetter THEN Tail(name) ELSE name
      nacc == IF r1 = <<>> THEN 0
              ELSE IF r1[1] \in {"#", "b", "x"} THEN RunLength(r1, r1[1]) ELSE 0
      r2 == Drop(r1, nacc)
      minus == IF r2 # <<>> /\ r2[1] = "-" THEN 1 ELSE 0
      noct == minus + DigitRun(Drop(r2, minus))
  IN [letter |-> IF hasLetter THEN <<UpperLetter(name[1])>> ELSE <<>>,
      acc |-> SubSeq(r1, 1, nacc),
      oct |-> SubSeq(r2, 1, noct),
      rest |-> Drop(r2, noct)]

NumTypes == {<<"6">>, <<"6", "4">>, <<"7">>, <<"9">>, <<"1", "1">>, <<"1", "3">>}

\* Chord.tokenize: [tonic, type]
TokensOf(t, name) ==
  IF t.letter = <<>> THEN [tonic |-> <<>>, type |-> name]
  ELSE IF t.letter = <<"A">> /\ t.acc = <<>> /\ t.oct = <<>> /\ t.rest = <<"u", "g">>
    THEN [tonic |-> <<>>, type |-> <<"a", "u", "g">>]
  ELSE IF t.rest = <<>> /\ t.oct \in {<<"4">>, <<"5">>}
    THEN [tonic |-> t.letter \o t.acc, type |-> t.oct]
  ELSE IF t.oct \in NumTypes
    THEN [tonic |-> t.letter \o t.acc, type |-> t.oct \o t.rest]
  ELSE [tonic |-> t.letter \o t.acc \o t.oct, type |-> t.rest]

TonalTokenize(name) == TokensOf(TonalTokenizeNote(name), name)

AccidentalAlt(acc) ==
  IF acc = <<>> THEN 0
  ELSE IF acc[1] = "#" THEN Len(acc)
  ELSE IF acc[1] = "x" THEN 2 * Len(acc)
  ELSE -Len(acc)

\* transpose(tonic, interval): the note a number of letter steps and semitones
\* above the tonic, spelled on that letter; the octave, when the tonic has
\* one, follows the letter
SpellNote(t, iv, li) ==
  LET alt == (NaturalSemis[LetterStep(t.letter[1]) + 1] + AccidentalAlt(t.acc) + iv.semis)
               - (NaturalSemis[(li % 7) + 1] + 12 * (li \div 7))
      name == <<TonalLetters[(li % 7) + 1]>>
                \o (IF alt > 0 THEN Repeat("#", alt) ELSE Repeat("b", -alt))
  IN IF t.oct = <<>> \/ t.oct = <<"-">> THEN name
     ELSE name \o IntToText(OctaveOf(t.oct) + (li \div 7))

TransposeToken(t, iv) == SpellNote(t, iv, LetterStep(t.letter[1]) + iv.step)

TonalTranspose(tonic, iv) == TransposeToken(TonalTokenizeNote(tonic), iv)

\* getQuality(intervals): augmented fifth, else major third, else diminished
\* fifth, else minor third
HasInterval(ivs, iv) == \E i \in 1..Len(ivs) : ivs[i] = iv

getQuality(ivs) ==
  IF HasInterval(ivs, Interval.A5) THEN "Augmented"
  ELSE IF HasInterval(ivs, Interval.M3) THEN "Major"
  ELSE IF HasInterval(ivs, Interval.d5) THEN "Diminished"
  ELSE IF HasInterval(ivs, Interval.m3) THEN "Minor"
  ELSE "Unknown"

NoChord == [empty |-> TRUE, notes |-> <<>>, quality |-> "Unknown"]

\* getChord(typeName, optionalTonic)
TonalGetChord(type, tonic) ==
  IF ~KnownType(type) THEN NoChord
  ELSE [empty |-> FALSE,
        quality |-> getQuality(TypeIntervals(type)),
        notes |-> IF tonic = <<>> THEN <<>>
                  ELSE LET ivs == TypeIntervals(type)
                       IN [i \in 1..Len(ivs) |-> TonalTranspose(tonic, ivs[i])]]

\* Chord.get(symbol): getChord(type, tonic) of the tokens, and for an empty
\* result getChord(symbol)
ChordOfTokens(tk) == TonalGetChord(tk.type, tk.tonic)

ChordOrType(c, symbol) == IF c.empty THEN TonalGetChord(symbol, <<>>) ELSE c

ChordGet(symbol) ==
  IF symbol = <<>> THEN NoChord
  ELSE ChordOrType(ChordOfTokens(TonalTokenize(symbol)), symbol)

(***************************************************************************)
(* lib/voicingEngine.ts                                                    *)
(***************************************************************************)
Range(s) == {s[i] : i \in 1..Len(s)}

RECURSIVE SumSeq(_)
SumSeq(s) == IF s = <<>> THEN 0 ELSE Head(s) + SumSeq(Tail(s))

\* Array.prototype.sort((a, b) => a - b)
RECURSIVE InsertAsc(_, _)
InsertAsc(x, s) ==
  IF s = <<>> THEN <<x>>
  ELSE IF x < Head(s) THEN <<x>> \o s
  ELSE <<Head(s)>> \o InsertAsc(x, Tail(s))

RECURSIVE SortAsc(_)
SortAsc(s) == IF s = <<>> THEN <<>> ELSE InsertAsc(Head(s), SortAsc(Tail(s)))

toMidiPc(pc, octave) == ToneMidi(pc \o IntToText(octave))

midiToPc(m) == stripOctave(ToneToNote(m))

clampRange(midis, range) ==
  \A i \in 1..Len(midis) : midis[i] >= range.low /\ midis[i] <= range.high

centerCMidi(centerOctave) ==
  LET m == ToneMidi(<<"C">> \o IntToText(centerOctave))
  IN IF IsFinite(m) THEN m ELSE 60

\* the first element of a non-empty sequence of MIDI numbers that is nearest to anchor
FirstNearest(cands, anchor) ==
  LET i == CHOOSE j \in 1..Len(cands) :
             /\ \A k \in 1..Len(cands) : Abs(cands[j] - anchor) <= Abs(cands[k] - anchor)
             /\ \A k \in 1..(j - 1) : Abs(cands[k] - anchor) > Abs(cands[j] - anchor)
  IN cands[i]

NearestOf(candidates, pc, anchorMidi) ==
  IF candidates = <<>>
  THEN IF IsFinite(toMidiPc(pc, 4)) THEN toMidiPc(pc, 4) ELSE anchorMidi
  ELSE FirstNearest(candidates, anchorMidi)

OctaveCandidates(pc, anchorOct) ==
  SelectSeq([k \in 1..5 |-> toMidiPc(pc, anchorOct - 3 + k)], IsFinite)

midiForPcNearAnchor(pc, anchorMidi) ==
  NearestOf(OctaveCandidates(pc, FloorDiv12(anchorMidi) - 1), pc, anchorMidi)

RECURSIVE PushAbove(_, _)
PushAbove(m, floorMidi) == IF m <= floorMidi THEN PushAbove(m + 12, floorMidi) ELSE m

MidiNearFloor(pc, floorMidi) == midiForPcNearAnchor(pc, floorMidi + 6)

midiForPcAbove(pc, floorMidi) == PushAbove(midiForPcNearAnchor(pc, floorMidi + 6), floorMidi)

\* /dim7/i.test(symbol)
RECURSIVE ContainsDim7(_)
ContainsDim7(s) ==
  IF Len(s) < 4 THEN FALSE
  ELSE \/ /\ s[1] \in {"d", "D"} /\ s[2] \in {"i", "I"} /\ s[3] \in {"m", "M"} /\ s[4] = "7"
       \/ ContainsDim7(Tail(s))

RoleOf(diff, hasM3, isDim7) ==
  CASE diff = 0 -> "root"
    [] diff = 4 -> "third"
    [] diff = 3 -> IF hasM3 THEN "altered" ELSE "third"
    [] diff \in {10, 11} -> "seventh"
    [] diff = 9 /\ isDim7 -> "seventh"
    [] diff = 7 -> "fifth"
    [] diff = 1 -> "altered"
    [] diff = 2 -> "tension"
    [] diff = 5 -> "tension"
    [] diff = 6 -> "altered"
    [] diff = 8 -> "altered"
    [] diff = 9 /\ ~isDim7 -> "tension"
    [] OTHER -> "other"

\* pcs.sort((a, b) => a.diff - b.diff), which keeps the order of equal diffs
RECURSIVE SortByDiffFrom(_, _)
SortByDiffFrom(pcs, d) ==
  IF d > 11 THEN <<>>
  ELSE SelectSeq(pcs, LAMBDA x : x.diff = d) \o SortByDiffFrom(pcs, d + 1)

\* the semitones of pc above the root, 0..11
DiffOf(pc, rootMidi) == FloorMod(JsRem(toMidiPc(pc, 4) - rootMidi, 12) + 12, 12)

InfoOf(pc, diff, hasM3, isDim7) ==
  [pc |-> pc, diff |-> diff, role |-> RoleOf(diff, hasM3, isDim7)]

InfosOf(finite, rootMidi, hasM3, isDim7) ==
  [i \in 1..Len(finite) |-> InfoOf(finite[i], DiffOf(finite[i], rootMidi), hasM3, isDim7)]

ClassifyFinite(finite, rootMidi, isDim7) ==
  SortByDiffFrom(
    InfosOf(finite, rootMidi, \E i \in 1..Len(finite) : DiffOf(finite[i], rootMidi) = 4, isDim7),
    0)

ClassifyNotes(root, notePcs, rootMidi, isDim7) ==
  IF notePcs = <<>> \/ ~IsFinite(rootMidi) THEN [rootPc |-> root, pcs |-> <<>>]
  ELSE [rootPc |-> root,
        pcs |-> ClassifyFinite(SelectSeq(notePcs, LAMBDA pc : IsFinite(toMidiPc(pc, 4))),
                               rootMidi, isDim7)]

StripAll(notes) == [i \in 1..Len(notes) |-> stripOctave(notes[i])]

ClassifyRoot(root, symbol) ==
  IF root = Null THEN [rootPc |-> Null, pcs |-> <<>>]
  ELSE ClassifyNotes(root, StripAll(ChordGet(symbol).notes), toMidiPc(root, 4),
                     ContainsDim7(symbol))

classifyChordPcs(ch) == ClassifyRoot(splitChordRootAndSuffix(ch.symbol).root, ch.symbol)

HasBass(ch) == ch.bass # Null /\ ch.bass # <<>>

\* for (const x of list) { if (selected.length >= maxVoices) break;
\*                         if (used.has(x.pc)) continue; selected.push(x.pc) }
RECURSIVE PushEach(_, _, _)
PushEach(selected, list, maxVoices) ==
  IF list = <<>> \/ Len(selected) >= maxVoices THEN selected
  ELSE IF Head(list).pc \in Range(selected) THEN PushEach(selected, Tail(list), maxVoices)
  ELSE PushEach(Append(selected, Head(list).pc), Tail(list), maxVoices)

\* if (!used.has(x.pc) && selected.length < maxVoices) selected.push(x.pc)
PushOne(selected, x, maxVoices) ==
  IF x.pc \notin Range(selected) /\ Len(selected) < maxVoices
  THEN Append(selected, x.pc) ELSE selected

\* list.find((t) => t.diff === d) ?? other
FindDiff(list, d, other) ==
  IF \E i \in 1..Len(list) : list[i].diff = d
  THEN list[CHOOSE i \in 1..Len(list) :
              list[i].diff = d /\ \A k \in 1..(i - 1) : list[k].diff # d]
  ELSE other

\* pcs.filter((x) => x.role === role)
WithRole(pcs, role) == SelectSeq(pcs, LAMBDA x : x.role = role)

\* while (selected.length < maxVoices) selected.push(selected[last] ?? (rootPc ?? "C"))
RECURSIVE PadWithLast(_, _, _)
PadWithLast(selected, rootPc, maxVoices) ==
  IF Len(selected) >= maxVoices THEN selected
  ELSE PadWithLast(
         Append(selected,
                IF selected # <<>> THEN selected[Len(selected)]
                ELSE IF rootPc # Null THEN rootPc ELSE <<"C">>),
         rootPc, maxVoices)

\* the slash bass, else the root, as the first tone
LowestTone(ch, rootPc, opts) ==
  IF opts.includeBass /\ HasBass(ch) THEN <<ch.bass>>
  ELSE IF opts.includeRoot /\ rootPc # Null THEN <<rootPc>>
  ELSE <<>>

\* the third: the major third first
PushThird(selected, thirds, maxVoices) ==
  IF thirds = <<>> THEN selected
  ELSE PushOne(selected, FindDiff(thirds, 4, thirds[1]), maxVoices)

SkipSeventh(selected, sevenths, maxVoices) == selected

\* the seventh: maj7 (11), then b7 (10), then any other
PushSeventh(selected, sevenths, maxVoices) ==
  IF sevenths = <<>> THEN selected
  ELSE PushOne(selected, FindDiff(sevenths, 11, FindDiff(sevenths, 10, sevenths[1])),
               maxVoices)

\* if (rootPc && selected.length < maxVoices && !used.has(rootPc)) selected.push(rootPc)
PushRoot(selected, rootPc, maxVoices) ==
  IF rootPc # Null /\ Len(selected) < maxVoices /\ rootPc \notin Range(selected)
  THEN Append(selected, rootPc) ELSE selected

SelectTones(lowest, pcs, rootPc, maxVoices) ==
  PadWithLast(
    PushRoot(
      PushEach(
        PushEach(
          PushEach(
            PushSeventh(
              PushThird(lowest, WithRole(pcs, "third"), maxVoices),
              WithRole(pcs, "seventh"), maxVoices),
            WithRole(pcs, "altered"), maxVoices),
          WithRole(pcs, "tension"), maxVoices),
        WithRole(pcs, "fifth"), maxVoices),
      rootPc, maxVoices),
    rootPc, maxVoices)

PickFrom(ch, cl, opts) ==
  [pcs |-> SelectTones(LowestTone(ch, cl.rootPc, opts), cl.pcs, cl.rootPc, opts.maxVoices),
   baseIsBass |-> opts.includeBass /\ HasBass(ch)]

pickSetForMaxVoices(ch, opts) == PickFrom(ch, classifyChordPcs(ch), opts)

RECURSIVE StackAbove(_, _)
StackAbove(midis, pcs) ==
  IF pcs = <<>> THEN midis
  ELSE StackAbove(Append(midis, midiForPcAbove(Head(pcs), midis[Len(midis)])), Tail(pcs))

CloseStackFrom(pcs, baseAnchor) ==
  SortAsc(StackAbove(<<midiForPcNearAnchor(pcs[1], baseAnchor)>>, Tail(pcs)))

buildCloseStackMidis(pcs, centerOctave, baseIsBass) ==
  CloseStackFrom(pcs, IF baseIsBass THEN centerCMidi(centerOctave) - 12
                      ELSE centerCMidi(centerOctave))

InvertOnceUnsorted(midis) ==
  IF Len(midis) <= 1 THEN midis
  ELSE <<midis[1] + 12>> \o Tail(midis)

invertOnce(midis) ==
  IF Len(midis) <= 1 THEN midis
  ELSE SortAsc(<<midis[1] + 12>> \o Tail(midis))

RECURSIVE Inversions(_, _)
Inversions(cur, n) ==
  IF n <= 1 THEN <<cur>> ELSE <<cur>> \o Inversions(invertOnce(cur), n - 1)

ShiftBy(v, s) == [i \in 1..Len(v) |-> v[i] + s]

\* for (const v of invs) for (const s of [-12, 0, 12]) out.push(v.map((m) => m + s))
ShiftEach(invs) ==
  [k \in 1..(3 * Len(invs)) |->
     ShiftBy(invs[((k - 1) \div 3) + 1], (((k - 1) % 3) - 1) * 12)]

generateCandidates(base) == ShiftEach(Inversions(base, Len(base)))

\* the weights of the cost, in hundredths
AnchorWeightPct == 35
LeapPenaltyWeightPct == 70
MaxLeap == 7

NoPrev == <<-1>>

\* one voice of the cost: the distance d, and the penalty of a leap over maxLeap
VoiceCost(d) ==
  100 * d + (IF d > MaxLeap THEN (d - MaxLeap) * LeapPenaltyWeightPct ELSE 0)

\* anchorWeight * |avg - center|, times 100 * n
AnchorCost(cand, center, n) == AnchorWeightPct * Abs(SumSeq(cand) - n * center)

CostAt(cand, prev, center, n) ==
  IF prev = NoPrev \/ Len(prev) # Len(cand) THEN AnchorCost(cand, center, n)
  ELSE AnchorCost(cand, center, n)
         + n * SumSeq([i \in 1..Len(cand) |-> VoiceCost(Abs(cand[i] - prev[i]))])

\* cost(cand, prev, centerOctave, opts), times 100 * max(1, cand.length)
cost(cand, prev, centerOctave) ==
  CostAt(cand, prev, centerCMidi(centerOctave), IF Len(cand) < 1 THEN 1 ELSE Len(cand))

RECURSIVE ScanLastCheapest(_, _, _, _, _)
ScanLastCheapest(rest, best, bestCost, prev, centerOctave) ==
  IF rest = <<>> THEN best
  ELSE IF cost(Head(rest), prev, centerOctave) <= bestCost
    THEN ScanLastCheapest(Tail(rest), Head(rest), cost(Head(rest), prev, centerOctave),
                          prev, centerOctave)
  ELSE ScanLastCheapest(Tail(rest), best, bestCost, prev, centerOctave)

\* for (const cand of rest) { const cc = cost(cand); if (cc < bestCost) { bestCost = cc; best = cand } }
RECURSIVE ScanCheapest(_, _, _, _, _)
ScanCheapest(rest, best, bestCost, prev, centerOctave) ==
  IF rest = <<>> THEN best
  ELSE LET cc == cost(Head(rest), prev, centerOctave)
       IN IF cc < bestCost THEN ScanCheapest(Tail(rest), Head(rest), cc, prev, centerOctave)
          ELSE ScanCheapest(Tail(rest), best, bestCost, prev, centerOctave)

\* generateCandidates(base).filter((m) => clampRange(m, opts.range))
InRange(cands, range) == SelectSeq(cands, LAMBDA m : clampRange(m, range))

PoolWithBase(candidates, base) == <<base>> \o candidates

\* candidates.length ? candidates : [base]
PoolOf(candidates, base) == IF candidates # <<>> THEN candidates ELSE <<base>>

ChooseLast(pool, prevMidis, centerOctave) == pool[Len(pool)]

ChooseBest(pool, prevMidis, centerOctave) ==
  ScanCheapest(Tail(pool), pool[1], cost(pool[1], prevMidis, centerOctave),
               prevMidis, centerOctave)

VoicingOf(best) == [midis |-> best, pcs |-> [i \in 1..Len(best) |-> midiToPc(best[i])]]

VoiceBase(base, centerOctave, prevMidis, opts) ==
  VoicingOf(ChooseBest(PoolOf(InRange(generateCandidates(base), opts.range), base),
                       prevMidis, centerOctave))

VoicePicked(picked, centerOctave, prevMidis, opts) ==
  VoiceBase(buildCloseStackMidis(picked.pcs, centerOctave, picked.baseIsBass),
            centerOctave, prevMidis, opts)

voicingForChord(ch, centerOctave, prevMidis, opts) ==
  VoicePicked(pickSetForMaxVoices(ch, opts), centerOctave, prevMidis, opts)

(***************************************************************************)
(* Key selectors of the page: setFromTonic / setToTonic re-run the         *)
(* memoised semitoneShift(fromKey.tonic, toKey.tonic).                     *)
(***************************************************************************)
KeyIdle == fromTonic = <<"C">> /\ toTonic = <<"C">> /\ shift = 0

KeyInit == fromTonic = <<"C">> /\ toTonic = <<"C">>
           /\ shift = semitoneShift(<<"C">>, <<"C">>)

setFromTonic(t) ==
  /\ t # fromTonic
  /\ fromTonic' = t
  /\ shift' = semitoneShift(t, toTonic)
  /\ UNCHANGED <<toTonic, trVars, voVars, pageVars, parseVars, romanVars, padVars>>

setToTonic(t) ==
  /\ t # toTonic
  /\ toTonic' = t
  /\ shift' = semitoneShift(fromTonic, t)
  /\ UNCHANGED <<fromTonic, trVars, voVars, pageVars, parseVars, romanVars, padVars>>

(***************************************************************************)
(* transposeChord applied to a chord and then, with the opposite shift, to *)
(* its result.                                                             *)
(***************************************************************************)
TrRoots == { <<"C">>, <<"C", "#">>, <<"D", "b">>, <<"F">>, <<"B", "b">>, <<"B">> }

TrSuffixes == { <<>>, <<"m", "7">>, <<"d", "i", "m", "7">>, <<"b", "9", "s", "u", "s">> }

TrSymbols == {r \o x : r \in TrRoots, x \in TrSuffixes}
               \cup { <<"X", "y", "z">>, <<"a", "m">> }

TrBasses == { Null, <<"G">>, <<"E", "b">>, <<"H">> }

TrChords == {[raw |-> y, symbol |-> y, bass |-> b] : y \in TrSymbols, b \in TrBasses}

TrIdle == tch = NullChord /\ tsemis = 0 /\ tres = NullChord /\ tback = NullChord
          /\ tpc = "idle"

TrInit == /\ tch \in TrChords
          /\ tsemis \in (-MaxSemis)..MaxSemis
          /\ tres = NullChord /\ tback = NullChord
          /\ tpc = "input"

TransposeThere ==
  /\ tpc = "input"
  /\ tres' = transposeChord(tch, tsemis)
  /\ tpc' = "there"
  /\ UNCHANGED <<tch, tsemis, tback, keyVars, voVars, pageVars, parseVars, romanVars, padVars>>

TransposeBack ==
  /\ tpc = "there"
  /\ tres # NullChord
  /\ tback' = transposeChord(tres, -tsemis)
  /\ tpc' = "back"
  /\ UNCHANGED <<tch, tsemis, tres, keyVars, voVars, pageVars, parseVars, romanVars, padVars>>

(***************************************************************************)
(* voicingForChord along a progression: each call gets the pitches of the  *)
(* call before it as previous voicing (the reduce of the page), with the   *)
(* centre octave and the options fixed for the progression.                *)
(***************************************************************************)
Chord(sym, bass) == [raw |-> IF bass = Null THEN sym ELSE sym \o <<"/">> \o bass,
                     symbol |-> sym, bass |-> bass]

VoChords ==
  { Chord(<<"E", "m", "7", "b", "5">>, Null), Chord(<<"C", "9">>, Null),
    Chord(<<"G", "7">>, <<"B">>), Chord(<<"C">>, Null),
    Chord(<<"m", "a", "j", "7">>, Null), Chord(<<"C">>, <<"H">>),
    Chord(<<"F", "#", "b", "9", "s", "u", "s">>, Null) }

\* page.tsx voicingOpts, and the default range of voicingForChord
VoRanges == { [low |-> 40, high |-> 84], [low |-> 36, high |-> 84] }

VoOptions ==
  [maxVoices : 1..MaxVoices, range : VoRanges, includeBass : BOOLEAN, includeRoot : BOOLEAN]

\* the centre octaves stepCenterOctave allows
CenterOctaves == 1..6

NoVoicing == [midis |-> NoPrev, pcs |-> <<>>]

VoIdle == /\ vCenter = 4 /\ vOpts = [maxVoices |-> 4, range |-> [low |-> 40, high |-> 84],
                                      includeBass |-> TRUE, includeRoot |-> TRUE]
          /\ vCh = NullChord /\ vPrev = NoPrev /\ vOut = NoVoicing /\ vPos = 0

VoInit == /\ vCenter \in CenterOctaves
          /\ vOpts \in VoOptions
          /\ vCh = NullChord /\ vPrev = NoPrev /\ vOut = NoVoicing /\ vPos = 0

\* one step of playableOriginal.reduce: v = voicingForChord(ch, centerOctave, st.prev, opts)
VoiceChord(ch) ==
  /\ vPos < MaxProg
  /\ vCh' = ch
  /\ vPrev' = vOut.midis
  /\ vOut' = voicingForChord(ch, vCenter, vOut.midis, vOpts)
  /\ vPos' = vPos + 1
  /\ UNCHANGED <<vCenter, vOpts, keyVars, trVars, pageVars, parseVars, romanVars, padVars>>

(***************************************************************************)
(* app/page.tsx: voicingsOriginal, the memo that voices the whole          *)
(* progression with one reduce; it is computed again whenever the chords   *)
(* or the centre octave change.                                            *)
(***************************************************************************)
voicingOpts ==
  [maxVoices |-> 4, range |-> [low |-> 40, high |-> 84],
   includeBass |-> TRUE, includeRoot |-> TRUE]

ReduceStepUnthreaded(st, v) == [prev |-> NoPrev, out |-> Append(st.out, v)]

\* return { prev: v.midis, out: [...st.out, v] }
ReduceStep(st, v) == [prev |-> v.midis, out |-> Append(st.out, v)]

RECURSIVE Reduce(_, _, _)
Reduce(chords, st, centerOctave) ==
  IF chords = <<>> THEN st
  ELSE Reduce(Tail(chords),
              ReduceStep(st, voicingForChord(Head(chords), centerOctave, st.prev, voicingOpts)),
              centerOctave)

VoicingsOf(chords, centerOctave) ==
  Reduce(chords, [prev |-> NoPrev, out |-> <<>>], centerOctave).out

\* chords that itemsToPlayableChords passes on: status ok or warn, with a symbol
PageChords ==
  { Chord(<<"E", "m", "7", "b", "5">>, Null), Chord(<<"C", "9">>, Null),
    Chord(<<"G", "7">>, <<"B">>), Chord(<<"m", "a", "j", "7">>, Null) }

PageIdle == playableOriginal = <<>> /\ pageCenterOctave = 4 /\ voicingsOriginal = <<>>

PageInit == /\ playableOriginal = <<>>
            /\ pageCenterOctave = 4
            /\ voicingsOriginal = VoicingsOf(<<>>, 4)

\* the input gains a chord at its end
appendChord(ch) ==
  /\ Len(playableOriginal) < MaxChords
  /\ playableOriginal' = Append(playableOriginal, ch)
  /\ voicingsOriginal' = VoicingsOf(Append(playableOriginal, ch), pageCenterOctave)
  /\ UNCHANGED <<pageCenterOctave, keyVars, trVars, voVars, parseVars, romanVars, padVars>>

\* the input loses its last chord
dropChord ==
  /\ playableOriginal # <<>>
  /\ playableOriginal' = SubSeq(playableOriginal, 1, Len(playableOriginal) - 1)
  /\ voicingsOriginal' =
       VoicingsOf(SubSeq(playableOriginal, 1, Len(playableOriginal) - 1), pageCenterOctave)
  /\ UNCHANGED <<pageCenterOctave, keyVars, trVars, voVars, parseVars, romanVars, padVars>>

Min(a, b) == IF a < b THEN a ELSE b
Max(a, b) == IF a > b THEN a ELSE b

\* setCenterOctave((p) => Math.min(6, Math.max(1, p + delta)))
stepCenterOctave(delta) ==
  /\ pageCenterOctave' = Min(6, Max(1, pageCenterOctave + delta))
  /\ voicingsOriginal' = VoicingsOf(playableOriginal, Min(6, Max(1, pageCenterOctave + delta)))
  /\ UNCHANGED <<playableOriginal, keyVars, trVars, voVars, parseVars, romanVars, padVars>>

(***************************************************************************)
(* lib/chordEngine.ts.  Characters outside ASCII are written by their code *)
(* point.                                                                  *)
(***************************************************************************)
Arrow == "U+2192"
IdeographicSpace == "U+3000"
FlatSign == "U+266D"
SharpSigns == {"U+266F", "U+FF03"}
Triangles == {"U+25B3", "U+0394"}
WideOpen == "U+FF08"
WideClose == "U+FF09"
RestSign == "U+4F11"

\* \s
IsSpace(c) == c \in {" ", "U+0009", "U+000A", IdeographicSpace}

IsSeparatorOrHyphen(c) == IsSpace(c) \/ c \in {",", "|", Arrow, "-"}

\* [\s,|→]
IsSeparator(c) == IsSpace(c) \/ c \in {",", "|", Arrow}

\* String.prototype.trim
RECURSIVE TrimStart(_)
TrimStart(s) == IF s # <<>> /\ IsSpace(Head(s)) THEN TrimStart(Tail(s)) ELSE s

RECURSIVE TrimEnd(_)
TrimEnd(s) ==
  IF s # <<>> /\ IsSpace(s[Len(s)]) THEN TrimEnd(SubSeq(s, 1, Len(s) - 1)) ELSE s

Trim(s) == TrimEnd(TrimStart(s))

\* s.replace(/♭/g, "b").replace(/[♯＃]/g, "#")
ReplaceSigns(s) ==
  [i \in 1..Len(s) |-> IF s[i] = FlatSign THEN "b"
                       ELSE IF s[i] \in SharpSigns THEN "#" ELSE s[i]]

Maj7Text == <<"m", "a", "j", "7">>

\* s.replace(/([A-G][b#]?)[△Δ]7/g, "$1maj7")
RECURSIVE ReplaceTriangle7(_)
ReplaceTriangle7(s) ==
  IF s = <<>> THEN <<>>
  ELSE IF /\ IsRootLetter(s[1]) /\ Len(s) >= 4 /\ s[2] \in {"b", "#"}
          /\ s[3] \in Triangles /\ s[4] = "7"
    THEN <<s[1], s[2]>> \o Maj7Text \o ReplaceTriangle7(Drop(s, 4))
  ELSE IF IsRootLetter(s[1]) /\ Len(s) >= 3 /\ s[2] \in Triangles /\ s[3] = "7"
    THEN <<s[1]>> \o Maj7Text \o ReplaceTriangle7(Drop(s, 3))
  ELSE <<s[1]>> \o ReplaceTriangle7(Tail(s))

\* (?=$|\/|\s|,|\|) at the start of s
TriangleEnds(s) == s = <<>> \/ s[1] = "/" \/ IsSpace(s[1]) \/ s[1] \in {",", "|"}

\* s.replace(/([A-G][b#]?)[△Δ](?=$|\/|\s|,|\|)/g, "$1maj7")
RECURSIVE ReplaceTriangle(_)
ReplaceTriangle(s) ==
  IF s = <<>> THEN <<>>
  ELSE IF /\ IsRootLetter(s[1]) /\ Len(s) >= 3 /\ s[2] \in {"b", "#"}
          /\ s[3] \in Triangles /\ TriangleEnds(Drop(s, 3))
    THEN <<s[1], s[2]>> \o Maj7Text \o ReplaceTriangle(Drop(s, 3))
  ELSE IF /\ IsRootLetter(s[1]) /\ Len(s) >= 2 /\ s[2] \in Triangles
          /\ TriangleEnds(Drop(s, 2))
    THEN <<s[1]>> \o Maj7Text \o ReplaceTriangle(Drop(s, 2))
  ELSE <<s[1]>> \o ReplaceTriangle(Tail(s))

\* s.replace(/（/g, "(").replace(/）/g, ")")
ReplaceWideParens(s) ==
  [i \in 1..Len(s) |-> IF s[i] = WideOpen THEN "("
                       ELSE IF s[i] = WideClose THEN ")" ELSE s[i]]

\* the index of the first c in s, 0 when there is none
IndexOf(s, c) ==
  IF \E i \in 1..Len(s) : s[i] = c
  THEN CHOOSE i \in 1..Len(s) : s[i] = c /\ \A k \in 1..(i - 1) : s[k] # c
  ELSE 0

\* s.replace(/\(([^)]+)\)/g, "$1")
RECURSIVE RemoveParens(_)
RemoveParens(s) ==
  IF s = <<>> THEN <<>>
  ELSE IF s[1] = "(" /\ IndexOf(s, ")") >= 3
    THEN SubSeq(s, 2, IndexOf(s, ")") - 1) \o RemoveParens(Drop(s, IndexOf(s, ")")))
  ELSE <<s[1]>> \o RemoveParens(Tail(s))

normalizeChordToken(token) ==
  RemoveParens(ReplaceWideParens(ReplaceTriangle(ReplaceTriangle7(ReplaceSigns(Trim(token))))))

\* input.split(/[\s,|→]+/): the pieces between the runs of separators
RECURSIVE SplitSeparators(_, _, _)
SplitSeparators(s, cur, afterSeparator) ==
  IF s = <<>> THEN <<cur>>
  ELSE IF IsSeparator(Head(s))
    THEN IF afterSeparator THEN SplitSeparators(Tail(s), cur, TRUE)
         ELSE <<cur>> \o SplitSeparators(Tail(s), <<>>, TRUE)
  ELSE SplitSeparators(Tail(s), Append(cur, Head(s)), FALSE)

KeepEmpty(tokens) == tokens

\* .filter((s) => s.length > 0)
DropEmpty(tokens) == SelectSeq(tokens, LAMBDA t : Len(t) > 0)

TrimEach(tokens) == [i \in 1..Len(tokens) |-> Trim(tokens[i])]

tokenize(input) == DropEmpty(TrimEach(SplitSeparators(input, <<>>, FALSE)))

RestText(s) ==
  \/ s = <<"-">>
  \/ s = <<RestSign>>
  \/ s = <<"(", RestSign, ")">>
  \/ s = <<WideOpen, RestSign, WideClose>>

isRestToken(t) == RestText(Trim(t))

\* normalized.split("/"): the text before the first "/", and the text between
\* the first and the second "/" (none when there is no "/")
SymbolPart(s) == IF IndexOf(s, "/") = 0 THEN s ELSE SubSeq(s, 1, IndexOf(s, "/") - 1)

BassPart(s) ==
  IF IndexOf(s, "/") = 0 THEN Null
  ELSE SymbolPart(Drop(s, IndexOf(s, "/")))

RestItem(index, raw) ==
  [index |-> index, raw |-> raw, kind |-> "chord", status |-> "rest",
   normalized |-> Null, symbol |-> Null, bass |-> Null, message |-> FALSE]

ErrorItem(index, raw, normalized, bass) ==
  [index |-> index, raw |-> raw, kind |-> "chord", status |-> "error",
   normalized |-> normalized, symbol |-> Null, bass |-> bass, message |-> TRUE]

\* if (bass) { const midi = Tone.Frequency(`${bass}4`).toMidi();
\*             if (!Number.isFinite(midi)) warn = true }
BassWarns(bass) == bass # Null /\ bass # <<>> /\ ~IsFinite(ToneMidi(bass \o <<"4">>))

ChordItem(index, raw, normalized, symbol, bass) ==
  [index |-> index, raw |-> raw, kind |-> "chord",
   status |-> IF BassWarns(bass) THEN "warn" ELSE "ok",
   normalized |-> normalized, symbol |-> symbol, bass |-> bass,
   message |-> BassWarns(bass)]

ItemOfParts(index, raw, normalized, symbol, bass) ==
  IF ChordGet(symbol).empty THEN ErrorItem(index, raw, normalized, bass)
  ELSE ChordItem(index, raw, normalized, symbol, bass)

ItemOfNormalized(index, raw, normalized) ==
  ItemOfParts(index, raw, normalized, SymbolPart(normalized), BassPart(normalized))

\* the callback of tokens.map((raw, index) => ...)
ItemOf(index, raw) ==
  IF isRestToken(raw) THEN RestItem(index, raw)
  ELSE ItemOfNormalized(index, raw, normalizeChordToken(raw))

ItemsOf(tokens) == [k \in 1..Len(tokens) |-> ItemOf(k - 1, tokens[k])]

parseChordInputDetailed(input) == ItemsOf(tokenize(input))

(***************************************************************************)
(* lib/romanEngine.ts                                                      *)
(***************************************************************************)
DegreeSign == "U+00B0"
HalfDimSign == "U+00F8"

UpperChars ==
  <<"A", "B", "C", "D", "E", "F", "G", "H", "I", "J", "K", "L", "M",
    "N", "O", "P", "Q", "R", "S", "T", "U", "V", "W", "X", "Y", "Z">>

LowerChars ==
  <<"a", "b", "c", "d", "e", "f", "g", "h", "i", "j", "k", "l", "m",
    "n", "o", "p", "q", "r", "s", "t", "u", "v", "w", "x", "y", "z">>

IsUpperChar(c) == \E i \in 1..26 : UpperChars[i] = c
IsLowerChar(c) == \E i \in 1..26 : LowerChars[i] = c

\* String.prototype.toLowerCase / toUpperCase
toLowerCase(s) ==
  [i \in 1..Len(s) |-> IF IsUpperChar(s[i])
                       THEN LowerChars[CHOOSE k \in 1..26 : UpperChars[k] = s[i]]
                       ELSE s[i]]

toUpperCase(s) ==
  [i \in 1..Len(s) |-> IF IsLowerChar(s[i])
                       THEN UpperChars[CHOOSE k \in 1..26 : LowerChars[k] = s[i]]
                       ELSE s[i]]

\* /^p/i.test(s) for a text p of lowercase letters and digits
StartsWith(s, p) == IsPrefix(p, toLowerCase(s))

\* String.prototype.includes
Includes(s, p) == \E i \in 0..(Len(s) - Len(p)) : SubSeq(s, i + 1, i + Len(p)) = p

ScaleStepsHarmonicMinor ==
  [major |-> <<0, 2, 4, 5, 7, 9, 11>>,
   minor |-> <<0, 2, 3, 5, 7, 8, 11>>]

SCALE_STEPS ==
  [major |-> <<0, 2, 4, 5, 7, 9, 11>>,
   minor |-> <<0, 2, 3, 5, 7, 8, 10>>]

\* ROMAN_TO_DEGREE[romanUp]; NaN stands for undefined
ROMAN_TO_DEGREE(romanUp) ==
  CASE romanUp = <<"I">> -> 0
    [] romanUp = <<"I", "I">> -> 1
    [] romanUp = <<"I", "I", "I">> -> 2
    [] romanUp = <<"I", "V">> -> 3
    [] romanUp = <<"V">> -> 4
    [] romanUp = <<"V", "I">> -> 5
    [] romanUp = <<"V", "I", "I">> -> 6
    [] OTHER -> NaN

TwoFiveOne == << <<"i", "i">>, <<"V", "7">>, <<"I", "m", "a", "j", "7">> >>

\* the separators [-\s]? of the English shorthand
OptionalJoins == {<<>>, <<"-">>, <<" ">>, <<"U+0009">>, <<"U+000A">>, <<IdeographicSpace>>}

EnglishShorthands ==
  {<<"t", "w", "o">> \o a \o <<"f", "i", "v", "e">> \o b \o <<"o", "n", "e">> :
     a \in OptionalJoins, b \in OptionalJoins}

LocalizedShorthand ==
  <<"U+30C4", "U+30FC", "U+30D5", "U+30A1", "U+30A4", "U+30D6", "U+30EF", "U+30F3">>

IsShorthand(s) ==
  \/ s \in {<<"2", "5", "1">>, <<"2", "-", "5", "-", "1">>}
  \/ toLowerCase(s) \in EnglishShorthands
  \/ Includes(s, LocalizedShorthand)

NotExpanded(raw) == <<raw>>

expandRomanAliases(raw) == IF IsShorthand(Trim(raw)) THEN TwoFiveOne ELSE <<raw>>

\* tokens.flatMap(expandRomanAliases)
RECURSIVE ExpandAll(_)
ExpandAll(tokens) ==
  IF tokens = <<>> THEN <<>>
  ELSE expandRomanAliases(Head(tokens)) \o ExpandAll(Tail(tokens))

normalizeRomanToken(token) == RemoveParens(ReplaceWideParens(ReplaceSigns(Trim(token))))

\* the length of the leading run of characters of the set cs in s
RECURSIVE LeadingRun(_, _)
LeadingRun(s, cs) ==
  IF s = <<>> \/ Head(s) \notin cs THEN 0 ELSE 1 + LeadingRun(Tail(s), cs)

NoMatch == [acc |-> Null, romanPart |-> Null, tail |-> Null]

\* token.match(/^([b#]{0,2})?([ivIV]+)(.*)$/), the tail trimmed
RomanSplit(token, a, r) ==
  IF a > 2 \/ r = 0 THEN NoMatch
  ELSE [acc |-> SubSeq(token, 1, a), romanPart |-> SubSeq(token, a + 1, a + r),
        tail |-> Trim(Drop(token, a + r))]

RomanMatchAfter(token, a) ==
  RomanSplit(token, a, LeadingRun(Drop(token, a), {"i", "v", "I", "V"}))

RomanMatch(token) == RomanMatchAfter(token, LeadingRun(token, {"b", "#"}))

\* (acc.match(/b/g)?.length ?? 0) * -1 + (acc.match(/#/g)?.length ?? 0) * 1
accSemis(acc) ==
  Cardinality({i \in 1..Len(acc) : acc[i] = "#"})
    - Cardinality({i \in 1..Len(acc) : acc[i] = "b"})

\* /o(?![a-z])/i.test(tail)
HasBareO(tail) ==
  \E i \in 1..Len(tail) :
    /\ tail[i] \in {"o", "O"}
    /\ (i = Len(tail) \/ ~(IsLowerChar(tail[i + 1]) \/ IsUpperChar(tail[i + 1])))

hasDim(romanUp, tail) ==
  \/ Includes(tail, <<DegreeSign>>)
  \/ Includes(toLowerCase(tail), <<"d", "i", "m">>)
  \/ HasBareO(tail)
  \/ (Len(romanUp) >= 3 /\ SubSeq(romanUp, Len(romanUp) - 2, Len(romanUp)) = <<"V", "I", "I">>
        /\ Includes(tail, <<"o">>))

hasHalfDim(tail) == Includes(tail, <<HalfDimSign>>)

hasAug(tail) == Includes(tail, <<"+">>) \/ Includes(toLowerCase(tail), <<"a", "u", "g">>)

isLower(romanPart) == romanPart = toLowerCase(romanPart)

\* the suffix by the quality of the numeral (lines 100-114)
QualitySuffix(romanPart, tail) ==
  IF hasHalfDim(tail) THEN <<"m", "7", "b", "5">>
  ELSE IF hasDim(toUpperCase(romanPart), tail) THEN <<"d", "i", "m">>
  ELSE IF hasAug(tail) THEN <<"a", "u", "g">>
  ELSE IF isLower(romanPart) THEN <<"m">>
  ELSE <<>>

\* ext.replace(/^\s+/, "").replace(/^maj7/i, "maj7").replace(/^M7/i, "maj7")
\*    .replace(/^Δ7/i, "maj7")
NormalizeExt(ext) ==
  IF StartsWith(ext, Maj7Text) THEN Maj7Text \o Drop(ext, 4)
  ELSE IF StartsWith(ext, <<"m", "7">>) THEN Maj7Text \o Drop(ext, 2)
  ELSE IF Len(ext) >= 2 /\ ext[1] = "U+0394" /\ ext[2] = "7" THEN Maj7Text \o Drop(ext, 2)
  ELSE ext

\* the suffix overridden by an explicit extension (lines 125-141)
ExtensionSuffix(suffix, e) ==
  IF StartsWith(e, Maj7Text)
    THEN IF suffix = <<"m">> THEN <<"m">> \o Maj7Text ELSE Maj7Text
  ELSE IF StartsWith(e, <<"m", "7", "b", "5">>) THEN <<"m", "7", "b", "5">>
  ELSE IF StartsWith(e, <<"m", "7">>) THEN <<"m", "7">>
  ELSE IF StartsWith(e, <<"7">>) THEN <<"7">>
  ELSE IF StartsWith(e, <<"s", "u", "s", "2">>) THEN <<"s", "u", "s", "2">>
  ELSE IF StartsWith(e, <<"s", "u", "s">>) THEN <<"s", "u", "s", "4">>
  ELSE IF StartsWith(e, <<"a", "d", "d", "9">>) THEN suffix \o <<"a", "d", "d", "9">>
  ELSE IF StartsWith(e, <<"d", "i", "m", "7">>) THEN <<"d", "i", "m", "7">>
  ELSE suffix

NoDefaultSuffix(romanPart, suffix) == suffix

\* the suffix of a numeral without trailing text (lines 146-149)
DefaultSuffix(romanPart, suffix) ==
  IF toUpperCase(romanPart) = <<"I">> /\ ~isLower(romanPart) THEN Maj7Text
  ELSE IF toUpperCase(romanPart) = <<"V">> /\ ~isLower(romanPart) THEN <<"7">>
  ELSE IF toUpperCase(romanPart) = <<"I", "I">> /\ isLower(romanPart) THEN <<"m", "7">>
  ELSE suffix

chordSuffix(romanPart, tail) ==
  IF tail # <<>>
  THEN ExtensionSuffix(QualitySuffix(romanPart, tail), NormalizeExt(TrimStart(tail)))
  ELSE DefaultSuffix(romanPart, QualitySuffix(romanPart, tail))

\* stripOctave(Tone.Frequency(rootMidi, "midi").toNote()) with rootMidi the
\* tonic in octave 4 transposed by baseSemis + accSemis
rootPc(key, deg, acc) ==
  stripOctave(ToneToNote(ToneMidi(key.tonic \o <<"4">>)
                           + SCALE_STEPS[key.mode][deg + 1] + accSemis(acc)))

NoRoman == [display |-> Null, rootPc |-> Null, chordSuffix |-> Null]

RomanOfMatch(m, key) ==
  IF m = NoMatch THEN NoRoman
  ELSE IF ROMAN_TO_DEGREE(toUpperCase(m.romanPart)) = NaN THEN NoRoman
  ELSE IF ~IsFinite(ToneMidi(key.tonic \o <<"4">>)) THEN NoRoman
  ELSE [display |-> m.acc \o m.romanPart \o m.tail,
        rootPc |-> rootPc(key, ROMAN_TO_DEGREE(toUpperCase(m.romanPart)), m.acc),
        chordSuffix |-> chordSuffix(m.romanPart, m.tail)]

parseRomanToChord(tokenRaw, key) == RomanOfMatch(RomanMatch(normalizeRomanToken(tokenRaw)), key)

RomanItemOfParsed(index, raw, normalized, parsed) ==
  IF parsed = NoRoman
  THEN [index |-> index, raw |-> raw, kind |-> "roman", status |-> "error",
        normalized |-> normalized, degree |-> Null, symbol |-> Null, bass |-> Null,
        message |-> TRUE]
  ELSE [index |-> index, raw |-> raw, kind |-> "roman", status |-> "ok",
        normalized |-> normalized, degree |-> parsed.display,
        symbol |-> parsed.rootPc \o parsed.chordSuffix, bass |-> Null, message |-> FALSE]

\* the callback of rawTokens.map((raw, index) => ...)
RomanItemOf(index, raw, key) ==
  IF isRestToken(raw)
  THEN [index |-> index, raw |-> raw, kind |-> "roman", status |-> "rest",
        normalized |-> Null, degree |-> Null, symbol |-> Null, bass |-> Null,
        message |-> FALSE]
  ELSE RomanItemOfParsed(index, raw, normalizeRomanToken(raw),
                         parseRomanToChord(normalizeRomanToken(raw), key))

RomanItemsOf(tokens, key) == [k \in 1..Len(tokens) |-> RomanItemOf(k - 1, tokens[k], key)]

parseRomanInputDetailed(input, key) == RomanItemsOf(ExpandAll(tokenize(input)), key)

IsPlayable(it) ==
  /\ it.status \in {"ok", "warn"}
  /\ it.symbol # Null /\ it.symbol # <<>>

KeepAllItems(items) ==
  [k \in 1..Len(items) |-> [raw |-> items[k].raw, symbol |-> items[k].symbol,
                            bass |-> items[k].bass]]

PlayableOf(items) ==
  [k \in 1..Len(items) |-> [raw |-> items[k].raw, symbol |-> items[k].symbol,
                            bass |-> items[k].bass]]

itemsToPlayableChords(items) == PlayableOf(SelectSeq(items, IsPlayable))

(***************************************************************************)
(* lib/keyTransform.ts: romanDegreeForChord                                *)
(***************************************************************************)
DEGREE_MAP ==
  << <<"I">>, <<FlatSign, "I", "I">>, <<"I", "I">>, <<FlatSign, "I", "I", "I">>,
     <<"I", "I", "I">>, <<"I", "V">>, <<"U+266F", "I", "V", "/", FlatSign, "V">>, <<"V">>,
     <<FlatSign, "V", "I">>, <<"V", "I">>, <<FlatSign, "V", "I", "I">>, <<"V", "I", "I">> >>

\* /(^|[^a-z])7(?!\d)/.test(s)
HasSeventh(s) ==
  \E i \in 1..Len(s) :
    /\ s[i] = "7"
    /\ (i = 1 \/ ~IsLowerChar(s[i - 1]))
    /\ (i = Len(s) \/ ~IsDigit(s[i + 1]))

NoDegreeExt(s) == <<>>

DegreeExt(s) ==
  IF Includes(s, Maj7Text) THEN Maj7Text
  ELSE IF Includes(s, <<"m", "7", "b", "5">>) THEN <<HalfDimSign>>
  ELSE IF Includes(s, <<"m", "7">>) THEN <<"m", "7">>
  ELSE IF HasSeventh(s) THEN <<"7">>
  ELSE IF Includes(s, <<"s", "u", "s">>) THEN <<"s", "u", "s">>
  ELSE <<>>

DegreeNumeral(base, quality) ==
  IF quality = "Augmented" THEN base \o <<"+">>
  ELSE IF quality = "Diminished" THEN toLowerCase(base) \o <<DegreeSign>>
  ELSE IF quality = "Minor" THEN toLowerCase(base)
  ELSE base

DegreeOfMidis(symbol, tonicMidi, rootMidi) ==
  IF ~IsFinite(tonicMidi) \/ ~IsFinite(rootMidi) THEN <<"?">>
  ELSE DegreeNumeral(DEGREE_MAP[((JsRem(rootMidi - tonicMidi, 12) + 12) % 12) + 1],
                     ChordGet(symbol).quality) \o DegreeExt(symbol)

DegreeOfRoot(symbol, root, fromKey) ==
  IF root = Null THEN <<"?">>
  ELSE DegreeOfMidis(symbol, ToneMidi(fromKey.tonic \o <<"4">>), ToneMidi(root \o <<"4">>))

romanDegreeForChord(ch, fromKey) ==
  DegreeOfRoot(ch.symbol, splitChordRootAndSuffix(ch.symbol).root, fromKey)

(***************************************************************************)
(* parseChordInputDetailed applied to an input text: a text is a run of at *)
(* most MaxPieces pieces, each a chord text, a rest, a separator or a rest  *)
(* between separators.                                                     *)
(***************************************************************************)
ParsePieces ==
  { <<"C">>, <<"E", "7">>, <<"X", "y", "z">>, <<"-">>, <<"C", "/", "E">>, <<"G", "/", "H">>,
    <<"D", "b", "U+25B3", "7">>, <<" ">>, <<",">>, <<"|">>, <<Arrow>>,
    <<" ", "-", ",", " ">>, <<"C", "/", "E", "7">> }

RECURSIVE Concat(_)
Concat(ps) == IF ps = <<>> THEN <<>> ELSE Head(ps) \o Concat(Tail(ps))

ParseInputs ==
  {Concat(ps) : ps \in UNION {[1..n -> ParsePieces] : n \in 0..MaxPieces}}

ParseIdle == pInput = <<>> /\ pItems = <<>> /\ pPlayable = <<>> /\ pPc = "idle"

ParseInit == pInput \in ParseInputs /\ pItems = <<>> /\ pPlayable = <<>> /\ pPc = "input"

ParseInput ==
  /\ pPc = "input"
  /\ pItems' = parseChordInputDetailed(pInput)
  /\ pPc' = "parsed"
  /\ UNCHANGED <<pInput, pPlayable, keyVars, trVars, voVars, pageVars, romanVars, padVars>>

\* page.tsx: playableOriginal = itemsToPlayableChords(parsedItems)
SelectPlayable ==
  /\ pPc = "parsed"
  /\ pPlayable' = itemsToPlayableChords(pItems)
  /\ pPc' = "playable"
  /\ UNCHANGED <<pInput, pItems, keyVars, trVars, voVars, pageVars, romanVars, padVars>>

(***************************************************************************)
(* parseRomanInputDetailed applied to an input text in a key, then         *)
(* itemsToPlayableChords, then romanDegreeForChord on each playable chord. *)
(* An input is one token (accidentals, a numeral, trailing text) or a run  *)
(* of at most MaxPieces pieces.                                            *)
(***************************************************************************)
RomanKeys == [tonic : TonicSet, mode : {"major", "minor"}]

RomanAccidentals == {<<>>, <<"b">>, <<"#">>, <<"b", "b">>, <<"#", "#">>, <<"b", "#">>,
                     <<FlatSign>>, <<"b", "b", "b">>}

RomanNumerals ==
  {<<"I">>, <<"I", "I">>, <<"I", "I", "I">>, <<"I", "V">>, <<"V">>, <<"V", "I">>,
   <<"V", "I", "I">>, <<"i">>, <<"i", "i">>, <<"i", "i", "i">>, <<"i", "v">>, <<"v">>,
   <<"v", "i">>, <<"v", "i", "i">>, <<"i", "I">>, <<"I", "I", "I", "I">>}

RomanTails ==
  {<<>>, <<"7">>, Maj7Text, <<"M", "7">>, <<"M", "A", "J", "7">>, <<"U+0394", "7">>,
   <<"m", "7">>, <<"m", "7", "b", "5">>, <<"s", "u", "s", "2">>, <<"s", "u", "s", "4">>,
   <<"s", "u", "s">>, <<"a", "d", "d", "9">>, <<"d", "i", "m", "7">>, <<"d", "i", "m">>,
   <<"o">>, <<"o", "7">>, <<DegreeSign>>, <<HalfDimSign>>, <<HalfDimSign, "7">>,
   <<"a", "u", "g">>, <<"+">>, <<"(", "7", ")">>}

\* every accidental and numeral, bare and with a seventh; every trailing text
\* on the numerals I, II, V, VII in both casings
RomanTokens ==
  {a \o n \o t : a \in RomanAccidentals, n \in RomanNumerals, t \in {<<>>, <<"7">>}}
    \cup {a \o n \o t : a \in {<<>>, <<"b">>},
                         n \in {<<"I">>, <<"i">>, <<"I", "I">>, <<"i", "i">>, <<"V">>, <<"v">>,
                                 <<"V", "I", "I">>, <<"v", "i", "i">>},
                         t \in RomanTails}

RomanPieces ==
  { <<"2", "5", "1">>, <<"2", "-", "5", "-", "1">>,
    <<"T", "w", "o", "-", "f", "i", "v", "e", "-", "o", "n", "e">>, LocalizedShorthand,
    <<"V", "7">>, <<"x", "y">>, <<"-">>, <<" ">> }

RomanRuns == {Concat(ps) : ps \in UNION {[1..n -> RomanPieces] : n \in 0..MaxPieces}}

\* the keys of the runs of pieces
RunKeys == {[tonic |-> <<"C">>, mode |-> "major"], [tonic |-> <<"A">>, mode |-> "minor"]}

RomanIdle ==
  /\ rKey = [tonic |-> <<"C">>, mode |-> "major"] /\ rInput = <<>> /\ rItems = <<>>
  /\ rPlayable = <<>> /\ rDegrees = <<>> /\ rPc = "idle"

RomanInit ==
  /\ \/ rKey \in RomanKeys /\ rInput \in RomanTokens
     \/ rKey \in RunKeys /\ rInput \in RomanRuns
  /\ rItems = <<>>
  /\ rPlayable = <<>> /\ rDegrees = <<>> /\ rPc = "input"

\* page.tsx: parsedItems = parseRomanInputDetailed(input, fromKey)
ParseRoman ==
  /\ rPc = "input"
  /\ rItems' = parseRomanInputDetailed(rInput, rKey)
  /\ rPc' = "parsed"
  /\ UNCHANGED <<rKey, rInput, rPlayable, rDegrees, keyVars, trVars, voVars, pageVars, parseVars, padVars>>

\* page.tsx: playableOriginal = itemsToPlayableChords(parsedItems)
RomanPlayable ==
  /\ rPc = "parsed"
  /\ rPlayable' = itemsToPlayableChords(rItems)
  /\ rPc' = "playable"
  /\ UNCHANGED <<rKey, rInput, rItems, rDegrees, keyVars, trVars, voVars, pageVars, parseVars, padVars>>

\* playableOriginal.map((ch) => romanDegreeForChord(ch, fromKey))
DeriveDegrees ==
  /\ rPc = "playable"
  /\ rDegrees' = [k \in 1..Len(rPlayable) |-> romanDegreeForChord(rPlayable[k], rKey)]
  /\ rPc' = "degrees"
  /\ UNCHANGED <<rKey, rInput, rItems, rPlayable, keyVars, trVars, voVars, pageVars, parseVars, padVars>>

(***************************************************************************)
(* components/ChordPadGrid.tsx: the pad grid.  The refs of the component   *)
(* are the variables synthRef, padHoldCounts, heldNotes, noteCounts,       *)
(* kbdDown and activePointers; a Record is a function on the keys it       *)
(* stores.  awaiting holds the startPad calls suspended at                 *)
(* "await initSynth()", in call order; calls lists the synth methods the   *)
(* last handler invoked and sounding the voices they left sounding.        *)
(***************************************************************************)
NoSynth == 0

\* padItems[i].notes, the pads being numbered from 0 as in the code
PadNotes == << <<"C4", "E4">>, <<"E4", "G4">>, <<>>, <<"G4">> >>
padItems == SubSeq(PadNotes, 1, MaxPads)
Pads == 0..(Len(padItems) - 1)
NotesOfPad(p) == padItems[p + 1]
PadNoteSet == UNION {Range(padItems[i]) : i \in 1..Len(padItems)}

\* the digit keys of the pads
DigitKeys == 1..MaxPads
Pointers == 1..MaxPointers

\* rec[k] ?? d, rec[k] = v and delete rec[k] on a Record
Lookup(rec, k, d) == IF k \in DOMAIN rec THEN rec[k] ELSE d
Store(rec, k, v) == [x \in DOMAIN rec \cup {k} |-> IF x = k THEN v ELSE rec[x]]
Delete(rec, k) == [x \in DOMAIN rec \ {k} |-> rec[x]]

SynthCall(op, note, synth) == [op |-> op, note |-> note, synth |-> synth]

\* the refs as one value, which the handlers below transform
Refs ==
  [synth |-> synthRef, hold |-> padHoldCounts, held |-> heldNotes, counts |-> noteCounts,
   kbd |-> kbdDown, ptrs |-> activePointers, waiting |-> awaiting, calls |-> <<>>]

\* startPad: for (const n of notes) { count up; triggerAttack when it becomes 1 }
RECURSIVE AttackEach(_, _, _)
AttackEach(r, notes, synth) ==
  IF notes = <<>> THEN r
  ELSE AttackEach(
         [r EXCEPT !.counts = Store(@, Head(notes), Lookup(@, Head(notes), 0) + 1),
                   !.calls = IF Lookup(r.counts, Head(notes), 0) + 1 = 1
                             THEN Append(@, SynthCall("triggerAttack", Head(notes), synth))
                             ELSE @],
         Tail(notes), synth)

\* stopPad: for (const n of notes) { count down; triggerRelease and delete at 0 }
RECURSIVE ReleaseEach(_, _)
ReleaseEach(r, notes) ==
  IF notes = <<>> THEN r
  ELSE ReleaseEach(
         IF Lookup(r.counts, Head(notes), 0) - 1 <= 0
         THEN [r EXCEPT !.counts = Delete(@, Head(notes)),
                        !.calls = Append(@, SynthCall("triggerRelease", Head(notes), r.synth))]
         ELSE [r EXCEPT !.counts = Store(@, Head(notes), Lookup(@, Head(notes), 0) - 1)],
         Tail(notes))

\* the part of startPad after the hold count: the synth exists
SoundPad(r, p, synth) ==
  AttackEach([r EXCEPT !.held = Store(@, p, NotesOfPad(p))], NotesOfPad(p), synth)

\* startPad up to its return or to "await initSynth()"
startPad(r, p) ==
  IF p \notin Pads THEN r
  ELSE IF Len(NotesOfPad(p)) = 0 THEN r
  ELSE IF Lookup(r.hold, p, 0) >= 1
       THEN [r EXCEPT !.hold = Store(@, p, Lookup(@, p, 0) + 1)]
  ELSE IF r.synth # NoSynth
       THEN SoundPad([r EXCEPT !.hold = Store(@, p, Lookup(@, p, 0) + 1)], p, r.synth)
  ELSE [r EXCEPT !.hold = Store(@, p, Lookup(@, p, 0) + 1),
                 !.waiting = Append(@, [pad |-> p, synth |-> NoSynth, stopped |-> FALSE])]

\* startPad from the return of "await initSynth()" on
resumePad(r, p, synth) ==
  IF Lookup(r.hold, p, 0) <= 0 THEN r ELSE SoundPad(r, p, synth)

\* history: the suspended calls of pad p have seen their pad stopped
MarkStopped(waiting, ps) ==
  [i \in 1..Len(waiting) |->
     IF waiting[i].pad \in ps THEN [waiting[i] EXCEPT !.stopped = TRUE] ELSE waiting[i]]

stopPad(r, p) ==
  IF Lookup(r.hold, p, 0) - 1 > 0
  THEN [r EXCEPT !.hold = Store(@, p, Lookup(@, p, 0) - 1)]
  ELSE IF r.synth = NoSynth \/ Len(Lookup(r.held, p, <<>>)) = 0
       THEN [r EXCEPT !.hold = Delete(@, p), !.waiting = MarkStopped(@, {p})]
  ELSE [ReleaseEach([r EXCEPT !.hold = Delete(@, p), !.waiting = MarkStopped(@, {p})],
                    r.held[p])
          EXCEPT !.held = Delete(@, p)]

stopAllPads(r) ==
  [r EXCEPT !.hold = <<>>, !.held = <<>>, !.ptrs = {}, !.counts = <<>>, !.kbd = {},
            !.waiting = MarkStopped(@, Pads),
            !.calls = IF r.synth # NoSynth
                      THEN Append(@, SynthCall("releaseAll", "", r.synth)) ELSE @]

\* document.activeElement is an input, a textarea, a select or editable
isTypingActive == typing

\* Digit1..Digit9 and Numpad1..Numpad9
keyToPadIndex(k) == k - 1

onKeyDown(r, k) ==
  IF isTypingActive THEN r
  ELSE IF keyToPadIndex(k) < 0 \/ keyToPadIndex(k) >= Len(padItems) THEN r
  ELSE IF keyToPadIndex(k) \in r.kbd THEN r
  ELSE startPad([r EXCEPT !.kbd = @ \cup {keyToPadIndex(k)}], keyToPadIndex(k))

onKeyUp(r, k) ==
  IF isTypingActive THEN r
  ELSE IF keyToPadIndex(k) \notin r.kbd THEN r
  ELSE stopPad([r EXCEPT !.kbd = @ \ {keyToPadIndex(k)}], keyToPadIndex(k))

\* window "pointerup" and "pointercancel"
handleGlobalPointerUp(r, id) ==
  IF r.ptrs \ {id} = {} THEN stopAllPads([r EXCEPT !.ptrs = @ \ {id}])
  ELSE [r EXCEPT !.ptrs = @ \ {id}]

\* the voices a synth is left with after a call: a PolySynth starts a voice
\* per triggerAttack and releases one voice of the note per triggerRelease
Voices(snd, c) ==
  IF c.op = "triggerAttack"
  THEN Store(snd, <<c.synth, c.note>>, Lookup(snd, <<c.synth, c.note>>, 0) + 1)
  ELSE IF c.op = "triggerRelease"
  THEN IF Lookup(snd, <<c.synth, c.note>>, 0) <= 1
       THEN Delete(snd, <<c.synth, c.note>>)
       ELSE Store(snd, <<c.synth, c.note>>, snd[<<c.synth, c.note>>] - 1)
  ELSE [x \in {y \in DOMAIN snd : y[1] # c.synth} |-> snd[x]]

RECURSIVE VoicesAfter(_, _)
VoicesAfter(snd, cs) ==
  IF cs = <<>> THEN snd ELSE VoicesAfter(Voices(snd, Head(cs)), Tail(cs))

\* the refs after a handler has run
Commit(r) ==
  /\ padHoldCounts' = r.hold
  /\ heldNotes' = r.held
  /\ noteCounts' = r.counts
  /\ kbdDown' = r.kbd
  /\ activePointers' = r.ptrs
  /\ awaiting' = r.waiting
  /\ calls' = r.calls
  /\ sounding' = VoicesAfter(sounding, r.calls)

PadIdle ==
  /\ synthRef = NoSynth /\ synthsCreated = 0
  /\ padHoldCounts = <<>> /\ heldNotes = <<>> /\ noteCounts = <<>>
  /\ kbdDown = {} /\ activePointers = {} /\ awaiting = <<>>
  /\ calls = <<>> /\ sounding = <<>>
  /\ keysDown = {} /\ pointerAt = <<>> /\ typing = FALSE

\* the component as mounted: no synth, nothing held, no key or pointer down
PadInit == PadIdle

\* The promises of Tone.start() are resolved together, in call order, and
\* what follows an await runs as a microtask: once the first suspended call
\* has resumed, no event handler runs before all of them have finished.
Resuming == \E i \in 1..Len(awaiting) : awaiting[i].synth # NoSynth

\* a digit key goes down (auto-repeat keydowns return at once)
KeyDown(k) ==
  /\ ~Resuming
  /\ k \notin keysDown
  /\ Len(onKeyDown(Refs, k).waiting) <= MaxCalls
  /\ keysDown' = keysDown \cup {k}
  /\ Commit(onKeyDown(Refs, k))
  /\ UNCHANGED <<synthRef, synthsCreated, pointerAt, typing,
                 keyVars, trVars, voVars, pageVars, parseVars, romanVars>>

\* the digit key goes up
KeyUp(k) ==
  /\ ~Resuming
  /\ k \in keysDown
  /\ keysDown' = keysDown \ {k}
  /\ Commit(onKeyUp(Refs, k))
  /\ UNCHANGED <<synthRef, synthsCreated, pointerAt, typing,
                 keyVars, trVars, voVars, pageVars, parseVars, romanVars>>

\* the focus moves into or out of an input field
FocusChange ==
  /\ ~Resuming
  /\ typing' = ~typing
  /\ Commit(Refs)
  /\ UNCHANGED <<synthRef, synthsCreated, pointerAt, keysDown,
                 keyVars, trVars, voVars, pageVars, parseVars, romanVars>>

\* onPointerDown of pad p
PointerDown(id, p) ==
  /\ ~Resuming
  /\ id \notin DOMAIN pointerAt
  /\ Len(startPad(Refs, p).waiting) <= MaxCalls
  /\ pointerAt' = Store(pointerAt, id, p)
  /\ Commit(startPad([Refs EXCEPT !.ptrs = @ \cup {id}], p))
  /\ UNCHANGED <<synthRef, synthsCreated, keysDown, typing,
                 keyVars, trVars, voVars, pageVars, parseVars, romanVars>>

\* onPointerUp or onPointerCancel of the pad that captured the pointer, and
\* then the window's handler of the same event
PointerUp(id) ==
  /\ ~Resuming
  /\ id \in DOMAIN pointerAt
  /\ pointerAt' = Delete(pointerAt, id)
  /\ Commit(handleGlobalPointerUp(
              stopPad([Refs EXCEPT !.ptrs = @ \ {id}], pointerAt[id]), id))
  /\ UNCHANGED <<synthRef, synthsCreated, keysDown, typing,
                 keyVars, trVars, voVars, pageVars, parseVars, romanVars>>

\* onPointerLeave or onContextMenu of pad p
PointerLeave(p) ==
  /\ ~Resuming
  /\ Commit(stopPad(Refs, p))
  /\ UNCHANGED <<synthRef, synthsCreated, keysDown, pointerAt, typing,
                 keyVars, trVars, voVars, pageVars, parseVars, romanVars>>

\* the ALL OFF button, window blur, or the document becoming hidden
AllOff ==
  /\ ~Resuming
  /\ Commit(stopAllPads(Refs))
  /\ UNCHANGED <<synthRef, synthsCreated, keysDown, pointerAt, typing,
                 keyVars, trVars, voVars, pageVars, parseVars, romanVars>>

\* initSynth after "await Tone.start()", for the earliest call still there:
\* a new PolySynth is created and stored in synthRef
InitSynthResumed(i) ==
  /\ i \in 1..Len(awaiting)
  /\ awaiting[i].synth = NoSynth
  /\ \A j \in 1..(i - 1) : awaiting[j].synth # NoSynth
  /\ synthsCreated' = synthsCreated + 1
  /\ synthRef' = synthsCreated + 1
  /\ awaiting' = [awaiting EXCEPT ![i].synth = synthsCreated + 1]
  /\ calls' = <<>>
  /\ UNCHANGED <<padHoldCounts, heldNotes, noteCounts, kbdDown, activePointers, sounding,
                 keysDown, pointerAt, typing,
                 keyVars, trVars, voVars, pageVars, parseVars, romanVars>>

\* startPad after "await initSynth()", with the synth that call created;
\* the initSynth continuations were queued before it
StartPadResumed ==
  /\ awaiting # <<>>
  /\ \A i \in 1..Len(awaiting) : awaiting[i].synth # NoSynth
  /\ Commit(resumePad([Refs EXCEPT !.waiting = Tail(@)],
                      Head(awaiting).pad, Head(awaiting).synth))
  /\ UNCHANGED <<synthRef, synthsCreated, keysDown, pointerAt, typing,
                 keyVars, trVars, voVars, pageVars, parseVars, romanVars>>

(***************************************************************************)
(* Specifications                                                          *)
(***************************************************************************)
InitKey == KeyInit /\ TrIdle /\ VoIdle /\ PageIdle /\ ParseIdle /\ RomanIdle /\ PadIdle
NextKey == \/ \E t \in TonicSet : setFromTonic(t)
           \/ \E t \in TonicSet : setToTonic(t)
SpecKey == InitKey /\ [][NextKey]_vars

InitTranspose == TrInit /\ KeyIdle /\ VoIdle /\ PageIdle /\ ParseIdle /\ RomanIdle /\ PadIdle
NextTranspose == TransposeThere \/ TransposeBack
SpecTranspose == InitTranspose /\ [][NextTranspose]_vars

InitVoicing == VoInit /\ KeyIdle /\ TrIdle /\ PageIdle /\ ParseIdle /\ RomanIdle /\ PadIdle
NextVoicing == \E ch \in VoChords : VoiceChord(ch)
SpecVoicing == InitVoicing /\ [][NextVoicing]_vars

InitPage == PageInit /\ KeyIdle /\ TrIdle /\ VoIdle /\ ParseIdle /\ RomanIdle /\ PadIdle
NextPage == \/ \E ch \in PageChords : appendChord(ch)
            \/ dropChord
            \/ \E delta \in {-1, 1} : stepCenterOctave(delta)
SpecPage == InitPage /\ [][NextPage]_vars

InitParse == ParseInit /\ KeyIdle /\ TrIdle /\ VoIdle /\ PageIdle /\ RomanIdle /\ PadIdle
NextParse == ParseInput \/ SelectPlayable
SpecParse == InitParse /\ [][NextParse]_vars

InitRoman == RomanInit /\ KeyIdle /\ TrIdle /\ VoIdle /\ PageIdle /\ ParseIdle /\ PadIdle
NextRoman == ParseRoman \/ RomanPlayable \/ DeriveDegrees
SpecRoman == InitRoman /\ [][NextRoman]_vars

InitPads == PadInit /\ KeyIdle /\ TrIdle /\ VoIdle /\ PageIdle /\ ParseIdle /\ RomanIdle
NextPads == \/ \E k \in DigitKeys : KeyDown(k)
            \/ \E k \in DigitKeys : KeyUp(k)
            \/ FocusChange
            \/ \E id \in Pointers : \E p \in Pads : PointerDown(id, p)
            \/ \E id \in Pointers : PointerUp(id)
            \/ \E p \in Pads : PointerLeave(p)
            \/ AllOff
            \/ \E i \in 1..MaxCalls : InitSynthResumed(i)
            \/ StartPadResumed
SpecPads == InitPads /\ [][NextPads]_vars

(***************************************************************************)
(* C2: for every pair of tonics the shift lies in [-6, 6] and is the       *)
(* negative of the shift of the swapped pair, the tritone pair included.   *)
(***************************************************************************)
C2_ShiftAntisymmetric ==
  /\ shift = semitoneShift(fromTonic, toTonic)
  /\ shift \in (-6)..6
  /\ shift = -semitoneShift(toTonic, fromTonic)

C2_Witness == Abs(PitchClassOf(toTonic) - PitchClassOf(fromTonic)) = 6 /\ Abs(shift) = 6

(***************************************************************************)
(* C1: transposing by s and then by -s gives a chord whose root, and whose *)
(* bass when the chord has one, keeps its semitone value mod 12.           *)
(***************************************************************************)
RootOf(ch) == splitChordRootAndSuffix(ch.symbol).root

HasBassPc(ch) == ch.bass # Null /\ PitchClassOf(ch.bass) # NaN

C1_RoundTripPitchClass ==
  (tpc = "back" /\ RootOf(tch) # Null) =>
     /\ tback # NullChord
     /\ RootOf(tback) # Null
     /\ PitchClassOf(RootOf(tback)) = PitchClassOf(RootOf(tch))
     /\ HasBassPc(tch) =>
           (HasBassPc(tback) /\ PitchClassOf(tback.bass) = PitchClassOf(tch.bass))

(***************************************************************************)
(* C9: transposeChord returns none only for a chord whose root cannot be   *)
(* parsed, and the suffix of the returned symbol, split again, is the      *)
(* suffix of the chord.                                                    *)
(***************************************************************************)
SuffixOf(ch) == splitChordRootAndSuffix(ch.symbol).suffix

C9_SuffixPreserved ==
  (tpc = "there") =>
     /\ (tres = NullChord) <=> (RootOf(tch) = Null)
     /\ (tres # NullChord) => SuffixOf(tres) = SuffixOf(tch)

(***************************************************************************)
(* C3: voicingForChord returns exactly n pitches for the voice count n,    *)
(* listed in non-decreasing order, for every chord, centre octave and      *)
(* previous voicing.                                                       *)
(***************************************************************************)
NonDecreasing(m) == \A i \in 1..(Len(m) - 1) : m[i] <= m[i + 1]

C3_ExactlyNSorted ==
  (vPos >= 1) => (Len(vOut.midis) = vOpts.maxVoices /\ NonDecreasing(vOut.midis))

\* a triad voiced with four voices after an earlier voicing
C3_Witness ==
  /\ vPos = 2 /\ vPrev # NoPrev
  /\ vCh = Chord(<<"C">>, Null) /\ vOpts.maxVoices = 4
  /\ Len(vOut.midis) = 4

(***************************************************************************)
(* C4: every pitch voicingForChord returns lies within                     *)
(* [range.low, range.high], for the centre octaves 1..6.                   *)
(***************************************************************************)
BaseOf(ch, centerOctave, opts) ==
  buildCloseStackMidis(pickSetForMaxVoices(ch, opts).pcs, centerOctave,
                       pickSetForMaxVoices(ch, opts).baseIsBass)

CandidatesOf(ch, centerOctave, opts) ==
  InRange(generateCandidates(BaseOf(ch, centerOctave, opts)), opts.range)

C4_AllInRange == (vPos >= 1) => clampRange(vOut.midis, vOpts.range)

\* C4 as amended: the pitches lie within the range whenever a generated
\* candidate lies wholly within it, and are the close stack itself, as built,
\* when none does.
C4_InRangeWhenCandidate ==
  (vPos >= 1) =>
     IF CandidatesOf(vCh, vCenter, vOpts) # <<>>
     THEN clampRange(vOut.midis, vOpts.range)
     ELSE vOut.midis = BaseOf(vCh, vCenter, vOpts)

\* the close stack leaves the range and the voicing returned does not
C4_Witness ==
  /\ vPos >= 1
  /\ ~clampRange(BaseOf(vCh, vCenter, vOpts), vOpts.range)
  /\ clampRange(vOut.midis, vOpts.range)

(***************************************************************************)
(* C5: for a chord without a root that can be parsed, or whose lookup      *)
(* yields no notes, voicingForChord returns no pitches.                    *)
(***************************************************************************)
NoNotes(ch) == RootOf(ch) = Null \/ ChordGet(ch.symbol).notes = <<>>

C5_EmptyForNoNotes == (vPos >= 1 /\ NoNotes(vCh)) => vOut.midis = <<>>

(***************************************************************************)
(* C6: with includeBass set and a slash bass on the chord, the lowest      *)
(* pitch returned has the pitch class of the bass.                         *)
(***************************************************************************)
C6_BassIsLowest ==
  (vPos >= 1 /\ vOpts.includeBass /\ HasBassPc(vCh)) =>
     FloorMod(vOut.midis[1], 12) = PitchClassOf(vCh.bass)

(***************************************************************************)
(* C8: in a progression of two chords with four voices, where the tones    *)
(* selected for chord 2 share three of four pitch classes with the voicing *)
(* of chord 1, every voice of chord 2's voicing that carries a shared tone *)
(* is no farther from the same voice of chord 1's voicing than that voice  *)
(* of chord 2's close stack built with no previous voicing.                *)
(***************************************************************************)
PcsOfMidis(m) == {FloorMod(m[i], 12) : i \in 1..Len(m)}

SelectedPcs(ch, opts) ==
  {PitchClassOf(pickSetForMaxVoices(ch, opts).pcs[i]) : i \in 1..opts.maxVoices}

SharedPcs == SelectedPcs(vCh, vOpts) \cap PcsOfMidis(vPrev)

C8_Case ==
  /\ vPos = 2 /\ vOpts.maxVoices = 4 /\ Len(vPrev) = 4
  /\ Cardinality(SelectedPcs(vCh, vOpts)) = 4
  /\ Cardinality(SharedPcs) = 3

C8_SharedVoicesNoFarther ==
  C8_Case =>
     \A i \in 1..4 :
        (FloorMod(vOut.midis[i], 12) \in SharedPcs) =>
           Abs(vOut.midis[i] - vPrev[i])
             <= Abs(BaseOf(vCh, vCenter, vOpts)[i] - vPrev[i])

\* C8 as amended: the cost of the voicing chosen for chord 2 (anchor term,
\* per-voice distances and leap penalties against chord 1's voicing) is no
\* larger than the cost of chord 2's close stack, whenever that close stack
\* lies within the range.
C8_CostNoLarger ==
  (C8_Case /\ clampRange(BaseOf(vCh, vCenter, vOpts), vOpts.range)) =>
     cost(vOut.midis, vPrev, vCenter) <= cost(BaseOf(vCh, vCenter, vOpts), vPrev, vCenter)

\* the close stack is within the range and costs more than the voicing chosen
C8_Witness ==
  /\ C8_Case
  /\ clampRange(BaseOf(vCh, vCenter, vOpts), vOpts.range)
  /\ cost(vOut.midis, vPrev, vCenter) < cost(BaseOf(vCh, vCenter, vOpts), vPrev, vCenter)

(***************************************************************************)
(* C7: the voicings of a progression are a fold from the left: the first   *)
(* chord is voiced with no previous voicing and every later chord with the *)
(* pitches of the voicing before it; so the voicings of the first i chords *)
(* are the voicings of the progression cut after i chords, whatever        *)
(* follows, and the voicings are a function of the progression.            *)
(***************************************************************************)
C7_LeftToRightFold ==
  /\ Len(voicingsOriginal) = Len(playableOriginal)
  /\ \A i \in 1..Len(playableOriginal) :
        voicingsOriginal[i] =
          voicingForChord(playableOriginal[i], pageCenterOctave,
                          IF i = 1 THEN NoPrev ELSE voicingsOriginal[i - 1].midis,
                          voicingOpts)
  /\ \A i \in 0..Len(playableOriginal) :
        SubSeq(voicingsOriginal, 1, i)
          = VoicingsOf(SubSeq(playableOriginal, 1, i), pageCenterOctave)

\* a progression of three chords whose second voicing depends on the first
C7_Witness ==
  /\ Len(playableOriginal) = 3 /\ Len(voicingsOriginal) = 3
  /\ voicingsOriginal[2]
       # voicingForChord(playableOriginal[2], pageCenterOctave, NoPrev, voicingOpts)

(***************************************************************************)
(* C10: parseChordInputDetailed returns one item for every non-empty token *)
(* of the input (a longest run of characters that are not separators), in  *)
(* the order of the input; item k carries the index k and the text of the  *)
(* token.                                                                  *)
(***************************************************************************)
TokenStarts ==
  {i \in 1..Len(pInput) :
     ~IsSeparator(pInput[i]) /\ (i = 1 \/ IsSeparator(pInput[i - 1]))}

TokenEnd(i) ==
  CHOOSE j \in i..Len(pInput) :
    /\ \A k \in i..j : ~IsSeparator(pInput[k])
    /\ (j = Len(pInput) \/ IsSeparator(pInput[j + 1]))

KthTokenStart(k) ==
  CHOOSE i \in TokenStarts : Cardinality({j \in TokenStarts : j < i}) = k - 1

C10_OneItemPerToken ==
  (pPc = "parsed") =>
     /\ Len(pItems) = Cardinality(TokenStarts)
     /\ \A k \in 1..Len(pItems) :
           /\ pItems[k].index = k - 1
           /\ pItems[k].raw = SubSeq(pInput, KthTokenStart(k), TokenEnd(KthTokenStart(k)))

\* an input that starts with a separator and holds two different tokens
C10_Witness ==
  /\ pPc = "parsed"
  /\ Len(pInput) >= 1 /\ IsSeparator(pInput[1])
  /\ Len(pItems) = 2
  /\ pItems[1].raw # pItems[2].raw

(***************************************************************************)
(* C11: the tokenizer splits the input on whitespace, commas, pipe, arrow  *)
(* and hyphens, so that the items are as many as the longest runs of       *)
(* characters that are neither separators nor hyphens.                     *)
(***************************************************************************)
SplitsAt(c) == IsSeparator(c) \/ c = "-"

HyphenTokenStarts ==
  {i \in 1..Len(pInput) : ~SplitsAt(pInput[i]) /\ (i = 1 \/ SplitsAt(pInput[i - 1]))}

C11_HyphenSeparates ==
  (pPc = "parsed") => Len(pItems) = Cardinality(HyphenTokenStarts)

CountHyphens(s) == Cardinality({i \in 1..Len(s) : s[i] = "-"})

RECURSIVE RawHyphens(_)
RawHyphens(items) ==
  IF items = <<>> THEN 0 ELSE CountHyphens(Head(items).raw) + RawHyphens(Tail(items))

\* C11 as amended: the tokenizer splits on whitespace, commas, pipe and arrow
\* only; a hyphen never separates: every hyphen of the input is kept in the
\* text of an item, and an input without separators is one item.
C11_HyphenKept ==
  (pPc = "parsed") =>
     /\ \A k \in 1..Len(pItems) :
           \A i \in 1..Len(pItems[k].raw) : ~IsSeparator(pItems[k].raw[i])
     /\ RawHyphens(pItems) = CountHyphens(pInput)
     /\ (pInput # <<>> /\ \A i \in 1..Len(pInput) : ~IsSeparator(pInput[i])) =>
           (Len(pItems) = 1 /\ pItems[1].raw = pInput)

\* two chord symbols joined by a hyphen are one item
C11_Witness ==
  /\ pPc = "parsed"
  /\ pInput = <<"C", "-", "E", "7">>
  /\ Len(pItems) = 1 /\ pItems[1].status = "error"

(***************************************************************************)
(* C12: every item has the status the rule gives its token: rest, with no  *)
(* chord, for a rest spelling; else error, with a message and no chord,    *)
(* when the symbol part cannot be resolved; else warn when the token has a *)
(* slash bass that is not the spelling of a pitch class; else ok.          *)
(***************************************************************************)
\* a letter A-G and at most an accidental
IsPitchClassSpelling(b) ==
  /\ b # <<>> /\ b # Null
  /\ LetterIndex(b[1]) # NaN
  /\ \E i \in 1..Len(ToneAccidentals) : Tail(b) = ToneAccidentals[i]

StatusByRule(tok) ==
  IF RestText(Trim(tok)) THEN "rest"
  ELSE IF ChordGet(SymbolPart(normalizeChordToken(tok))).empty THEN "error"
  ELSE IF /\ BassPart(normalizeChordToken(tok)) # Null
          /\ BassPart(normalizeChordToken(tok)) # <<>>
          /\ ~IsPitchClassSpelling(BassPart(normalizeChordToken(tok)))
    THEN "warn"
  ELSE "ok"

C12_StatusByRule ==
  (pPc = "parsed") =>
     \A k \in 1..Len(pItems) :
        /\ pItems[k].status = StatusByRule(pItems[k].raw)
        /\ (pItems[k].status \in {"rest", "error"}) => pItems[k].symbol = Null
        /\ (pItems[k].status = "error") => pItems[k].message

\* C13: in roman mode a token that is the two-five-one shorthand ("251",
\* "2-5-1", the English phrase in any casing, the localized phrase) is replaced
\* in place by the three items ii, V7, Imaj7 with those degree labels, every
\* other token gives one item of its own text (a token that only contains the
\* localized phrase may be expanded as well), in key C major the three items
\* resolve to Dm7, G7, Cmaj7, and the item indexes count 0, 1, 2, ... over the
\* expanded sequence.
IsTwoFiveOne(t) ==
  \/ toLowerCase(t) \in {<<"2", "5", "1">>, <<"2", "-", "5", "-", "1">>,
                         <<"t", "w", "o", "-", "f", "i", "v", "e", "-", "o", "n", "e">>,
                         <<"t", "w", "o", "f", "i", "v", "e", "o", "n", "e">>}
  \/ t = LocalizedShorthand

CMajor == [tonic |-> <<"C">>, mode |-> "major"]

IsTwoFiveOneItems(items, key) ==
  /\ Len(items) >= 3
  /\ <<items[1].raw, items[2].raw, items[3].raw>> = TwoFiveOne
  /\ <<items[1].degree, items[2].degree, items[3].degree>> = TwoFiveOne
  /\ \A k \in 1..3 : items[k].status = "ok"
  /\ (key = CMajor) =>
        <<items[1].symbol, items[2].symbol, items[3].symbol>>
          = << <<"D", "m", "7">>, <<"G", "7">>, <<"C", "m", "a", "j", "7">> >>

RECURSIVE ExpansionMatches(_, _, _)
ExpansionMatches(tokens, items, key) ==
  IF tokens = <<>> THEN items = <<>>
  ELSE IF IsTwoFiveOne(Head(tokens))
    THEN IsTwoFiveOneItems(items, key) /\ ExpansionMatches(Tail(tokens), Drop(items, 3), key)
  ELSE \/ /\ items # <<>>
          /\ Head(items).raw = Head(tokens)
          /\ ExpansionMatches(Tail(tokens), Tail(items), key)
       \/ /\ Includes(Head(tokens), LocalizedShorthand)
          /\ IsTwoFiveOneItems(items, key)
          /\ ExpansionMatches(Tail(tokens), Drop(items, 3), key)

C13_ShorthandExpands ==
  (rPc = "parsed") =>
     /\ ExpansionMatches(tokenize(rInput), rItems, rKey)
     /\ \A k \in 1..Len(rItems) : rItems[k].index = k - 1

C13_Witness ==
  /\ rPc = "parsed"
  /\ rKey = CMajor
  /\ rInput = <<"V", "7", " ", "2", "5", "1">>
  /\ Len(rItems) = 4
  /\ rItems[4].index = 3
  /\ rItems[4].symbol = <<"C", "m", "a", "j", "7">>

\* C14: for every key (12 tonics, major or minor), every numeral I..VII in
\* either casing and every leading accidental string of up to two b/#
\* characters, the root of the resolved chord has the pitch class
\* (tonic + scaleStep[mode][degree] + number of '#' - number of 'b') mod 12,
\* with major steps 0,2,4,5,7,9,11 and natural-minor steps 0,2,3,5,7,8,10.
MajorSteps == <<0, 2, 4, 5, 7, 9, 11>>
NaturalMinorSteps == <<0, 2, 3, 5, 7, 8, 10>>

DiatonicNumerals ==
  << <<"I">>, <<"I", "I">>, <<"I", "I", "I">>, <<"I", "V">>, <<"V">>, <<"V", "I">>,
     <<"V", "I", "I">> >>

PlainAccidentals == {<<>>, <<"b">>, <<"#">>, <<"b", "b">>, <<"#", "#">>, <<"b", "#">>}

\* the token is the accidental string acc, the numeral n and trailing text
IsNumeralToken(token, acc, n) ==
  /\ IsPrefix(acc \o n, token)
  /\ Drop(token, Len(acc) + Len(n)) \in RomanTails

\* the numerals I..VII in either casing
DiatonicSpellings ==
  {m \in RomanNumerals : \E d \in 1..7 : DiatonicNumerals[d] = toUpperCase(m)}

DegreeOf(n) == CHOOSE d \in 1..7 : DiatonicNumerals[d] = toUpperCase(n)

ExpectedRootPc(key, acc, d) ==
  (PitchClassOf(key.tonic)
     + (IF key.mode = "major" THEN MajorSteps[d] ELSE NaturalMinorSteps[d])
     + Cardinality({i \in 1..Len(acc) : acc[i] = "#"})
     - Cardinality({i \in 1..Len(acc) : acc[i] = "b"})) % 12

C14_RootPitchClass ==
  (rPc = "parsed") =>
     \A acc \in PlainAccidentals :
        \A n \in DiatonicSpellings :
           IsNumeralToken(rInput, acc, n) =>
              /\ Len(rItems) = 1
              /\ rItems[1].status = "ok"
              /\ PitchClassOf(splitChordRootAndSuffix(rItems[1].symbol).root)
                   = ExpectedRootPc(rKey, acc, DegreeOf(n))

C14_Witness ==
  /\ rPc = "parsed"
  /\ rKey = [tonic |-> <<"E", "b">>, mode |-> "minor"]
  /\ rInput = <<"b", "b", "v", "i", "7">>
  /\ rItems[1].symbol = <<"A", "7">>

\* C15: when the trailing text of a roman token is an explicit extension, the
\* resolved suffix is that extension (half-diminished sign: m7b5; dim7; m7b5;
\* m7; maj7; 7; sus2; sus4), whether the numeral is upper- or lowercase, and
\* add9 is appended to the suffix the numeral has without it.
ExplicitTails ==
  {<<HalfDimSign>>, <<HalfDimSign, "7">>, <<"d", "i", "m", "7">>, <<"m", "7", "b", "5">>,
   <<"m", "7">>, Maj7Text, <<"7">>, <<"s", "u", "s", "2">>, <<"s", "u", "s", "4">>}

ExplicitSuffix(tail) ==
  IF tail \in {<<HalfDimSign>>, <<HalfDimSign, "7">>} THEN <<"m", "7", "b", "5">> ELSE tail

SuffixOfItem(it) == splitChordRootAndSuffix(it.symbol).suffix

C15_ExplicitExtensionWins ==
  (rPc = "parsed") =>
     \A acc \in PlainAccidentals :
        \A n \in DiatonicSpellings :
           /\ \A t \in ExplicitTails :
                 rInput = acc \o n \o t =>
                    /\ Len(rItems) = 1
                    /\ rItems[1].status = "ok"
                    /\ SuffixOfItem(rItems[1]) = ExplicitSuffix(t)
           /\ rInput = acc \o n \o <<"a", "d", "d", "9">> =>
                 /\ Len(rItems) = 1
                 /\ rItems[1].status = "ok"
                 /\ SuffixOfItem(rItems[1])
                      = (IF isLower(n) THEN <<"m">> ELSE <<>>) \o <<"a", "d", "d", "9">>

\* C16: a bare roman numeral (no trailing text), with or without a leading
\* accidental, resolves in both key modes to: a minor seventh for lowercase
\* ii, a dominant seventh for uppercase V, a major seventh for uppercase I,
\* and for every other numeral to a plain triad, minor when lowercase and
\* major when uppercase.
BareSuffix(n) ==
  IF n = <<"i", "i">> THEN <<"m", "7">>
  ELSE IF n = <<"V">> THEN <<"7">>
  ELSE IF n = <<"I">> THEN Maj7Text
  ELSE IF n = toLowerCase(n) THEN <<"m">>
  ELSE <<>>

\* the numerals I..VII written all in uppercase or all in lowercase
UniformSpellings == {m \in DiatonicSpellings : m = toLowerCase(m) \/ m = toUpperCase(m)}

C16_BareNumeralDefaults ==
  (rPc = "parsed") =>
     \A acc \in PlainAccidentals :
        \A n \in UniformSpellings :
           rInput = acc \o n =>
              /\ Len(rItems) = 1
              /\ rItems[1].status = "ok"
              /\ SuffixOfItem(rItems[1]) = BareSuffix(n)

C16_Witness ==
  /\ rPc = "parsed"
  /\ rKey = [tonic |-> <<"A">>, mode |-> "minor"]
  /\ rInput = <<"b", "i", "i">>
  /\ rItems[1].symbol = <<"A", "#", "m", "7">>

\* C17: itemsToPlayableChords returns exactly the items whose status is ok or
\* warn and that have a resolved chord symbol, in their original order, each
\* reduced to raw text, symbol and bass; rest and error items never appear.
PlayableIndexes ==
  {k \in 1..Len(pItems) : pItems[k].status \in {"ok", "warn"} /\ pItems[k].symbol # Null}

\* the j-th playable index, in increasing order
KthPlayable(j) ==
  CHOOSE k \in PlayableIndexes : Cardinality({i \in PlayableIndexes : i < k}) = j - 1

C17_ExactlyPlayable ==
  (pPc = "playable") =>
     /\ Len(pPlayable) = Cardinality(PlayableIndexes)
     /\ \A j \in 1..Len(pPlayable) :
           /\ pPlayable[j] = [raw |-> pItems[KthPlayable(j)].raw,
                              symbol |-> pItems[KthPlayable(j)].symbol,
                              bass |-> pItems[KthPlayable(j)].bass]
           /\ pItems[KthPlayable(j)].status \notin {"rest", "error"}

C17_Witness ==
  /\ pPc = "playable"
  /\ pInput = <<"G", "/", "H", " ", "-", ",", " ", "C">>
  /\ Len(pItems) = 3
  /\ Len(pPlayable) = 2
  /\ pPlayable[1].bass = <<"H">>
  /\ pPlayable[2].symbol = <<"C">>

\* C18: for every major key, romanDegreeForChord applied in that key to the
\* chord that roman resolution produces for "V7" returns a label made of the
\* numeral V and the dominant-seventh suffix "7".
C18_DominantRoundTrip ==
  (rPc = "degrees" /\ rKey.mode = "major" /\ rInput = <<"V", "7">>) =>
     /\ Len(rPlayable) = 1
     /\ SuffixOfItem(rPlayable[1]) = <<"7">>
     /\ rDegrees = << <<"V", "7">> >>

C18_Witness ==
  /\ rPc = "degrees"
  /\ rKey = [tonic |-> <<"G", "b">>, mode |-> "major"]
  /\ rInput = <<"V", "7">>
  /\ rPlayable[1].symbol = <<"C", "#", "7">>
  /\ rDegrees[1] = <<"V", "7">>

\* C19: romanDegreeForChord inverts roman resolution: for every key (12
\* tonics, major and minor) and every diatonic numeral I..VII, the degree
\* label of the chord the numeral resolves to in the key starts with that
\* same numeral (in either casing), without a flat or sharp prefix.
LabelNumeral(label) == SubSeq(label, 1, LeadingRun(label, {"i", "v", "I", "V"}))

C19_DegreeInvertsResolution ==
  (rPc = "degrees") =>
     \A n \in UniformSpellings :
        rInput = n =>
           /\ Len(rDegrees) = 1
           /\ toUpperCase(LabelNumeral(rDegrees[1])) = toUpperCase(n)

\* C20: tone selection returns voiceCount tones, picked in the fixed order:
\* the slash bass (if includeBass and the chord has one) else the root (if
\* includeRoot), then one third (the major third preferred), then one seventh
\* (major seventh, then minor seventh, then any other), then the altered
\* tones, then the tension tones, then the fifth; no later-ranked tone is
\* selected while an earlier-ranked tone of the chord is left out.
RankOf(role) ==
  CASE role = "third" -> 2
    [] role = "seventh" -> 3
    [] role = "altered" -> 4
    [] role = "tension" -> 5
    [] role = "fifth" -> 6
    [] OTHER -> 0

\* the tones of the chord that take part in the ranking: of several thirds
\* or sevenths only the preferred one
FirstWith(tones, role, diffs) ==
  CHOOSE i \in 1..Len(tones) :
    /\ tones[i].role = role /\ tones[i].diff \in diffs
    /\ \A k \in 1..(i - 1) : ~(tones[k].role = role /\ tones[k].diff \in diffs)

PreferredIndex(tones, role, first, second) ==
  IF \E i \in 1..Len(tones) : tones[i].role = role /\ tones[i].diff = first
    THEN FirstWith(tones, role, {first})
  ELSE IF \E i \in 1..Len(tones) : tones[i].role = role /\ tones[i].diff = second
    THEN FirstWith(tones, role, {second})
  ELSE FirstWith(tones, role, 0..11)

IsRanked(tones, i) ==
  /\ RankOf(tones[i].role) > 0
  /\ (tones[i].role = "third") => i = PreferredIndex(tones, "third", 4, 3)
  /\ (tones[i].role = "seventh") => i = PreferredIndex(tones, "seventh", 11, 10)

\* the first place of the tone pc in the selection, 0 when it is not selected
PlaceOf(sel, pc) == IndexOf(sel, pc)

\* the number of tones the selection starts with before the ranked ones
LowestCount(ch, root, opts) ==
  IF opts.includeBass /\ HasBass(ch) THEN 1
  ELSE IF opts.includeRoot /\ root # Null THEN 1 ELSE 0

SelectionInOrder(sel, tones, lowest) ==
  \A i \in 1..Len(tones) : \A j \in 1..Len(tones) :
     (/\ IsRanked(tones, i) /\ IsRanked(tones, j)
      /\ RankOf(tones[i].role) < RankOf(tones[j].role)
      /\ PlaceOf(sel, tones[j].pc) > lowest) =>
        /\ PlaceOf(sel, tones[i].pc) > 0
        /\ PlaceOf(sel, tones[i].pc) < PlaceOf(sel, tones[j].pc)

SelectionStarts(sel, ch, root, opts) ==
  /\ Len(sel) = opts.maxVoices
  /\ (opts.includeBass /\ HasBass(ch)) => sel[1] = ch.bass
  /\ (~(opts.includeBass /\ HasBass(ch)) /\ opts.includeRoot /\ root # Null) => sel[1] = root

SelectionRanked(sel, cl, ch, opts) ==
  /\ SelectionStarts(sel, ch, cl.rootPc, opts)
  /\ SelectionInOrder(sel, cl.pcs, LowestCount(ch, cl.rootPc, opts))

C20_SelectionOrder ==
  (vPos >= 1) =>
     SelectionRanked(pickSetForMaxVoices(vCh, vOpts).pcs, classifyChordPcs(vCh), vCh, vOpts)

C20_Witness ==
  /\ vPos >= 1
  /\ vCh.symbol = <<"F", "#", "b", "9", "s", "u", "s">>
  /\ vOpts.maxVoices = 4 /\ vOpts.includeRoot
  /\ pickSetForMaxVoices(vCh, vOpts).pcs = << <<"F", "#">>, <<"E">>, <<"G">>, <<"B">> >>

\* C21: when the chord has fewer distinct tones than voiceCount, tone
\* selection fills the shortfall by first repeating the root and only then
\* duplicating the last selected tone: the first entry of the selection that
\* repeats an earlier one is the root (a major triad with 4 voices selects
\* root, third, fifth, root).
FirstRepeat(sel) ==
  CHOOSE i \in 1..Len(sel) :
    /\ \E j \in 1..(i - 1) : sel[j] = sel[i]
    /\ \A k \in 1..(i - 1) : \A j \in 1..(k - 1) : sel[j] # sel[k]

RootRepeatedFirst(sel, cl) ==
  (cl.pcs # <<>> /\ Cardinality(Range(sel)) < Len(sel)) => sel[FirstRepeat(sel)] = cl.rootPc

C21_RootRepeatedFirst ==
  (vPos >= 1) =>
     RootRepeatedFirst(pickSetForMaxVoices(vCh, vOpts).pcs, classifyChordPcs(vCh))

\* C22: in the baseline close stack every tone after the first is placed at
\* the nearest octave of its pitch class strictly above the pitch placed just
\* before it: the stack has one pitch per selected tone, in selection order,
\* strictly ascending, each consecutive gap between 1 and 12 semitones, and a
\* tone that has a pitch class sits on it.
CloseStackAscends(base, pcs) ==
  /\ Len(base) = Len(pcs)
  /\ \A i \in 2..Len(base) :
        /\ base[i] - base[i - 1] \in 1..12
        /\ (PitchClassOf(pcs[i]) # NaN) => FloorMod(base[i], 12) = PitchClassOf(pcs[i])

StackOfPicked(picked, centerOctave) ==
  CloseStackAscends(buildCloseStackMidis(picked.pcs, centerOctave, picked.baseIsBass),
                    picked.pcs)

C22_CloseStackAscends ==
  (vPos >= 1) => StackOfPicked(pickSetForMaxVoices(vCh, vOpts), vCenter)

\* a triad with four voices: the repeated tone lies an octave above
C22_Witness ==
  /\ vPos >= 1
  /\ vCh = Chord(<<"C">>, Null) /\ vOpts.maxVoices = 4 /\ vOpts.includeRoot /\ vCenter = 4
  /\ BaseOf(vCh, vCenter, vOpts) = <<60, 64, 67, 79>>

\* C23: candidate generation yields N inversions of an N-tone close stack,
\* the stack itself included, such that every tone of the stack is the lowest
\* pitch of exactly one inversion, and with the three octave placements 3N
\* candidates.
TonesOn(midis, pc) == Cardinality({i \in 1..Len(midis) : FloorMod(midis[i], 12) = pc})

LowestOf(invs) == [k \in 1..Len(invs) |-> invs[k][1]]

EachToneLowestOnce(base, invs) ==
  /\ Len(invs) = Len(base)
  /\ invs[1] = base
  /\ \A pc \in 0..11 : TonesOn(LowestOf(invs), pc) = TonesOn(base, pc)

InversionsCycle(base) ==
  /\ EachToneLowestOnce(base, Inversions(base, Len(base)))
  /\ Len(generateCandidates(base)) = 3 * Len(base)

C23_EachToneLowestOnce ==
  (vPos >= 1) => InversionsCycle(BaseOf(vCh, vCenter, vOpts))

\* C24: voicingForChord returns a candidate of minimum cost among the
\* candidates within the range (the close stack as built when none is), the
\* first such in generation order (inversions in order, each at -12, 0, +12),
\* where cost = anchorWeight * |mean - centerC| plus, only when the previous
\* voicing has as many voices, the sum over the voices of the distance d and
\* of (d - maxLeap) * leapPenaltyWeight when d > maxLeap.
\* The cost is written in hundredths and times the number n of voices.
StatedCost(cand, prev, centerC, n) ==
  AnchorWeightPct * Abs(SumSeq(cand) - n * centerC)
    + (IF prev # NoPrev /\ Len(prev) = Len(cand)
       THEN n * SumSeq([i \in 1..Len(cand) |->
                  100 * Abs(cand[i] - prev[i])
                    + (IF Abs(cand[i] - prev[i]) > MaxLeap
                       THEN (Abs(cand[i] - prev[i]) - MaxLeap) * LeapPenaltyWeightPct
                       ELSE 0)])
       ELSE 0)

\* the candidates in generation order
GenerationOrder(base, invs, cands) ==
  /\ Len(cands) = 3 * Len(invs)
  /\ \A k \in 1..Len(invs) :
        /\ cands[3 * k - 2] = [i \in 1..Len(base) |-> invs[k][i] - 12]
        /\ cands[3 * k - 1] = invs[k]
        /\ cands[3 * k] = [i \in 1..Len(base) |-> invs[k][i] + 12]

\* out is in the pool, no entry costs less than c, the cost of out, and
\* every entry before the first place of out costs more
CheapestAt(costs, pool, out, c) ==
  /\ \E k \in 1..Len(pool) : pool[k] = out
  /\ \A j \in 1..Len(pool) :
        /\ c <= costs[j]
        /\ (\A i \in 1..j : pool[i] # out) => c < costs[j]

\* out is the first entry of the pool of least cost
FirstCheapest(pool, out, prev, centerC, n) ==
  CheapestAt([j \in 1..Len(pool) |-> StatedCost(pool[j], prev, centerC, n)], pool, out,
             StatedCost(out, prev, centerC, n))

CheapestOfCandidates(base, cands, out, prev, range, centerC) ==
  /\ GenerationOrder(base, Inversions(base, Len(base)), cands)
  /\ FirstCheapest(IF \E k \in 1..Len(cands) : clampRange(cands[k], range)
                   THEN SelectSeq(cands, LAMBDA m : clampRange(m, range)) ELSE <<base>>,
                   out, prev, centerC, Len(base))

CheapestOfBase(base, out, prev, range, centerC) ==
  CheapestOfCandidates(base, generateCandidates(base), out, prev, range, centerC)

CheapestOfPicked(picked, out, prev, range, centerOctave) ==
  CheapestOfBase(buildCloseStackMidis(picked.pcs, centerOctave, picked.baseIsBass),
                 out, prev, range, 12 * (centerOctave + 1))

TiedLater(pool, out, prev, centerC, n) ==
  \E j \in 1..Len(pool) :
     /\ pool[j] # out
     /\ StatedCost(pool[j], prev, centerC, n) = StatedCost(out, prev, centerC, n)

SelectedOn(pcs, pc) == Cardinality({i \in 1..Len(pcs) : PitchClassOf(pcs[i]) = pc})

SameTones(midis, base) == \A pc \in 0..11 : TonesOn(midis, pc) = TonesOn(base, pc)

CandidatesKeepTones(base, cands) == \A k \in 1..Len(cands) : SameTones(cands[k], base)

TonesOfSelection(midis, pcs) == \A pc \in 0..11 : TonesOn(midis, pc) = SelectedOn(pcs, pc)

TonesKept(picked, centerOctave, out) ==
  /\ CandidatesKeepTones(buildCloseStackMidis(picked.pcs, centerOctave, picked.baseIsBass),
                         generateCandidates(buildCloseStackMidis(picked.pcs, centerOctave,
                                                                 picked.baseIsBass)))
  /\ TonesOfSelection(out, picked.pcs)

C30_TonesKept ==
  (vPos >= 1) => TonesKept(pickSetForMaxVoices(vCh, vOpts), vCenter, vOut.midis)

\* the part of C30 about the candidates alone
C30_CandidatesOnly ==
  (vPos >= 1) =>
     /\ CandidatesKeepTones(BaseOf(vCh, vCenter, vOpts),
                            generateCandidates(BaseOf(vCh, vCenter, vOpts)))
     /\ SameTones(vOut.midis, BaseOf(vCh, vCenter, vOpts))

\* C30 for the selections whose every tone names a note
C30_NamedTones ==
  (vPos >= 1 /\ \A i \in 1..Len(pickSetForMaxVoices(vCh, vOpts).pcs) :
                   PitchClassOf(pickSetForMaxVoices(vCh, vOpts).pcs[i]) # NaN)
     => TonesKept(pickSetForMaxVoices(vCh, vOpts), vCenter, vOut.midis)

\* C25: over any interleaving of startPad and stopPad on pads that share a
\* note, the synth gets triggerAttack for a note only when no held pad was
\* sounding it, and triggerRelease for it exactly when the last held pad
\* that contains it is stopped; and once every started pad is stopped,
\* every attacked note has been released.
HeldWith(held, n) == {p \in DOMAIN held : n \in Range(held[p])}

Called(cs, op, n) == \E i \in 1..Len(cs) : cs[i].op = op /\ cs[i].note = n

LastPadStopped(n) == HeldWith(heldNotes, n) # {} /\ HeldWith(heldNotes', n) = {}

CountedStep ==
  \A n \in PadNoteSet :
     /\ Called(calls', "triggerAttack", n) => HeldWith(heldNotes, n) = {}
     /\ Called(calls', "triggerRelease", n) => LastPadStopped(n)
     /\ LastPadStopped(n) =>
           Called(calls', "triggerRelease", n) \/ Called(calls', "releaseAll", "")

AllStopped == padHoldCounts = <<>> /\ awaiting = <<>>

C25_NotesCounted == [][CountedStep]_vars /\ [](AllStopped => sounding = <<>>)

\* the startPad calls that have reached "await initSynth()" so far
Awaited == synthsCreated + Cardinality({i \in 1..Len(awaiting) : awaiting[i].synth = NoSynth})

\* C25 for the behaviours in which at most one startPad call had to wait
\* for the synth
C25_OneAwaited ==
  /\ [][Awaited' <= 1 => CountedStep]_vars
  /\ []((Awaited <= 1 /\ AllStopped) => sounding = <<>>)

\* C26: a startPad call whose pad was stopped, by stopPad or stopAllPads,
\* while the call was waiting for the synth does nothing once the synth is
\* there: no attack, no held notes recorded, no note count raised, whatever
\* pad events came in between.
StoppedCallResumes ==
  /\ awaiting # <<>>
  /\ awaiting' = Tail(awaiting)
  /\ Head(awaiting).synth # NoSynth
  /\ Head(awaiting).stopped

C26_StoppedCallIdle ==
  [][StoppedCallResumes =>
       (calls' = <<>> /\ heldNotes' = heldNotes /\ noteCounts' = noteCounts)]_vars

\* C27: the pad grid creates at most one synth, whatever the startPad calls
\* made before the synth is there, so that every call goes to the one synth
\* synthRef holds.
C27_OneSynth ==
  /\ synthsCreated <= 1
  /\ \A i \in 1..Len(calls) : calls[i].synth = synthRef
  /\ \A v \in DOMAIN sounding : v[1] = synthRef

\* C28: in every reachable state the count stored for a note is the number
\* of its occurrences in the held-notes lists of all pads, no stored note
\* count and no stored hold count is below 1, and a pad has a held-notes
\* entry only while its hold count is at least 1.
OccurrencesIn(notes, n) == Cardinality({i \in 1..Len(notes) : notes[i] = n})

RECURSIVE OccurrencesHeld(_, _, _)
OccurrencesHeld(held, ps, n) ==
  IF ps = {} THEN 0
  ELSE LET p == CHOOSE q \in ps : TRUE
       IN OccurrencesIn(held[p], n) + OccurrencesHeld(held, ps \ {p}, n)

C28_CountsMatchHeld ==
  /\ \A n \in PadNoteSet \cup DOMAIN noteCounts :
        Lookup(noteCounts, n, 0) = OccurrencesHeld(heldNotes, DOMAIN heldNotes, n)
  /\ \A n \in DOMAIN noteCounts : noteCounts[n] >= 1
  /\ \A p \in DOMAIN padHoldCounts : padHoldCounts[p] >= 1
  /\ \A p \in DOMAIN heldNotes : Lookup(padHoldCounts, p, 0) >= 1

\* C28 for the states in which at most one startPad call had to wait
C28_OneAwaited == (Awaited <= 1) => C28_CountsMatchHeld

\* C29: after a keydown for digit k has called startPad(k - 1), the next
\* keyup for k calls stopPad(k - 1) and removes the pad from the key-down
\* set, wherever the input focus has gone in between.
KeyGoesUp(k) == k \in keysDown /\ keysDown' = keysDown \ {k}

StoppedByKey(p) ==
  /\ p \notin kbdDown'
  /\ padHoldCounts' = stopPad(Refs, p).hold
  /\ heldNotes' = stopPad(Refs, p).held
  /\ noteCounts' = stopPad(Refs, p).counts
  /\ calls' = stopPad(Refs, p).calls

C29_KeyUpStops ==
  [][\A k \in DigitKeys :
        (KeyGoesUp(k) /\ keyToPadIndex(k) \in kbdDown) => StoppedByKey(keyToPadIndex(k))]_vars

\* C29 for the keyups that find the focus outside the input fields
C29_KeyUpUnfocused ==
  [][\A k \in DigitKeys :
        (KeyGoesUp(k) /\ ~typing /\ keyToPadIndex(k) \in kbdDown)
           => StoppedByKey(keyToPadIndex(k))]_vars

\* the consequence C29 names: a pad is in the key-down set only while its
\* key is down, so that the next keydown starts it again
C29_KeyDownSetFollowsKeys == \A p \in kbdDown : \E k \in keysDown : keyToPadIndex(k) = p

=============================================================================
